---- MODULE Spec2Model ----
(***************************************************************************)
(* BB84 key-distribution simulator: the shared-document session run by the *)
(* sender front end (alice-app.py) and the receiver front end (bob-app.py) *)
(* the pure protocol functions they call, and the desktop front end        *)
(* (quantum-keygen-gui.py) up to its sifting page, and the single-process  *)
(* web front end (streamlit-keygen.py).                                    *)
(*                                                                         *)
(* Modelling conventions                                                   *)
(*  - A Python list is a TLA+ sequence; Python index i is position i+1.    *)
(*    matching_indices keeps the Python (0-based) values.                  *)
(*  - The JSON file is the pair (file_exists, file).  A script run of an   *)
(*    actor loads the whole document into its dict local[a] (Load), and    *)
(*    the handler of the widget the user touched modifies that dict and    *)
(*    saves the whole dict; pc[a] then names the handler that ran.         *)
(*    Load and the handler are separate steps, so the other actor can      *)
(*    write in between.  One file read and one file write are each taken   *)
(*    to be atomic.                                                        *)
(*  - A phase string is a record [name, who]: f"waiting_{p}_response" is   *)
(*    [name |-> "waiting_response", who |-> p].                            *)
(*  - error_rate (errors / total_bits) is the unreduced fraction           *)
(*    [num, den]; 0.0 is [num |-> 0, den |-> 1].                           *)
(*  - hashlib.sha256(...).hexdigest() is an idealised collision-free hash: *)
(*    a 64-character string identified by its preimage.  "" is EmptyKey.   *)
(*  - random.randint / random.random are nondeterministic choices.         *)
(***************************************************************************)
EXTENDS Integers, Sequences, FiniteSets, TLC

VARIABLES file_exists, file, pc, local, stale, edits, fn, gui, web

vars == <<file_exists, file, pc, local, stale, edits, fn, gui, web>>

(***************************************************************************)
(* Bounds of the model                                                     *)
(***************************************************************************)
\* the value of the "Number of Qubits" input tried in a session
MaxQubits == 5

\* within one sequence random.randint(0, 1) returns 1 at most once, and the
\* eavesdropper changes at most one bit, at one of the first MaxRandomPos
\* positions
MaxRandomPos == 1

\* number of times the sender changes a sidebar setting (the partner name
\* or the eavesdropper checkbox)
MaxEdits == 2

\* number of writes by the other actor that may fall between one actor's
\* load and its own write
MaxStale == 3

\* longest list given to the pure functions when they are checked alone
MaxLen == 3

\* length of the long lists given to the pure functions, on which
\* total_bits // 8 and total_bits // 15 exceed 0
LongLen == 16

\* one-time pad inputs: at most MaxKeyDigits hex digits, MaxMessageLen characters
MaxKeyDigits == 5

MaxMessageLen == 2

\* largest "Number of qubits" entered on the desktop front end's setup page
MaxGuiQubits == 11

\* number of preparation threads of the desktop front end alive at once
MaxPrepareThreads == 2
\* the least number of bits generate_final_key accepts
MinKeyBits == 4
MaxKeyBits == 5
TwinLen == 6

Bit == {0, 1}

Actors == {"alice", "bob"}

\* partner names the sender types into the text input
Partners == {"bob", "huot", "alice"}

\* greeting texts the sender types (the text input may be emptied)
GreetingTexts == {"", "hello"}

\* response texts the receiver types
ResponseTexts == {"ready"}

(***************************************************************************)
(* Python helpers                                                          *)
(***************************************************************************)
Min2(a, b) == IF a <= b THEN a ELSE b

Max2(a, b) == IF a >= b THEN a ELSE b

\* s[i] with a Python index
At(s, i) == s[i + 1]

\* s[:k] for 0 <= k
Take(s, k) == SubSeq(s, 1, Min2(k, Len(s)))

\* the outcomes of n calls of random.randint(0, 1), within the bound
RandomBits(n) ==
  {[i \in 1..n |-> 0]} \cup {[i \in 1..n |-> IF i = k THEN 1 ELSE 0] : k \in 1..Min2(n, MaxRandomPos)}

\* all bit lists of length 0..n
BitLists(n) == UNION {[1..k -> Bit] : k \in 0..n}

(***************************************************************************)
(* The session document                                                    *)
(***************************************************************************)
Phase(name) == [name |-> name, who |-> ""]

WaitingResponse(p) == [name |-> "waiting_response", who |-> p]

WaitingMeasurement(p) == [name |-> "waiting_measurement", who |-> p]

ZeroRate == [num |-> 0, den |-> 1]

EmptyKey == [len |-> 0, pre |-> <<>>]

\* the dict returned by load_shared_state when the file is missing or
\* unreadable.  bob-app.py's default lacks alice_selected_partner and the
\* huot_* keys; every read of those keys goes through .get with the same
\* default values, so one record stands for both.
DefaultState ==
  [alice_bits |-> <<>>, alice_bases |-> <<>>, alice_message |-> "",
   alice_selected_partner |-> "bob",
   bob_bases |-> <<>>, bob_results |-> <<>>, bob_message |-> "",
   huot_bases |-> <<>>, huot_results |-> <<>>, huot_message |-> "",
   phase |-> Phase("greeting"),
   sifted_bits |-> <<>>, matching_indices |-> <<>>,
   error_rate |-> ZeroRate, final_key |-> EmptyKey,
   eve_present |-> FALSE,
   alice_ready |-> FALSE, bob_ready |-> FALSE, huot_ready |-> FALSE]

load_shared_state(exists, content) == IF exists THEN content ELSE DefaultState

\* the dict bob-app.py's load_shared_state returns when the file is missing
\* or unreadable: it has no alice_selected_partner and no huot_* keys
BobDefaultState ==
  [alice_bits |-> <<>>, alice_bases |-> <<>>, alice_message |-> "",
   bob_bases |-> <<>>, bob_results |-> <<>>, bob_message |-> "",
   phase |-> Phase("greeting"),
   sifted_bits |-> <<>>, matching_indices |-> <<>>,
   error_rate |-> ZeroRate, final_key |-> EmptyKey,
   eve_present |-> FALSE,
   alice_ready |-> FALSE, bob_ready |-> FALSE]

\* variant: a file that json.load cannot parse makes the read raise
load_shared_state_raising(app, exists, parses, content) ==
  IF exists /\ parses THEN [raised |-> FALSE, state |-> content]
  ELSE IF exists THEN [raised |-> TRUE, state |-> content]
  ELSE [raised |-> FALSE,
        state |-> IF app = "alice" THEN DefaultState ELSE BobDefaultState]

\* load_shared_state of application app, the outcome of json.load explicit:
\* parses is FALSE when open or json.load raises, which the bare except
\* swallows; raised tells whether the call itself raises
load_shared_state_of(app, exists, parses, content) ==
  IF exists /\ parses THEN [raised |-> FALSE, state |-> content]
  ELSE [raised |-> FALSE,
        state |-> IF app = "alice" THEN DefaultState ELSE BobDefaultState]

save_shared_state(state) == state

\* shared_state.get(f"{p}_ready", False)
GetReady(state, p) ==
  CASE p = "alice" -> state.alice_ready
    [] p = "bob" -> state.bob_ready
    [] p = "huot" -> state.huot_ready
    [] OTHER -> FALSE

\* shared_state.get(f"{p}_results") / .get(f"{p}_results", [])
GetResults(state, p) ==
  CASE p = "bob" -> state.bob_results
    [] p = "huot" -> state.huot_results
    [] OTHER -> <<>>

\* shared_state.get(f"{p}_bases", [])
GetBases(state, p) ==
  CASE p = "alice" -> state.alice_bases
    [] p = "bob" -> state.bob_bases
    [] p = "huot" -> state.huot_bases
    [] OTHER -> <<>>

(***************************************************************************)
(* Protocol functions                                                      *)
(***************************************************************************)
\* generate_qubits: the set of possible (bits, bases) results
generate_qubits(num_qubits) ==
  {<<bits, bases>> : bits \in RandomBits(num_qubits), bases \in RandomBits(num_qubits)}

\* the loop of perform_sifting from index i (Python) up to min_length - 1
RECURSIVE SiftLoop(_, _, _, _, _, _)
SiftLoop(i, min_length, alice_bases, partner_bases, partner_results, acc) ==
  IF i >= min_length THEN acc
  ELSE IF At(alice_bases, i) = At(partner_bases, i)
       THEN SiftLoop(i + 1, min_length, alice_bases, partner_bases, partner_results,
                     [sifted_bits |-> Append(acc.sifted_bits, At(partner_results, i)),
                      matching_indices |-> Append(acc.matching_indices, i)])
       ELSE SiftLoop(i + 1, min_length, alice_bases, partner_bases, partner_results, acc)

\* variant: keeps the sender's bit instead of the receiver's result
perform_sifting_bits(alice_bits, alice_bases, partner_bases, partner_results) ==
  LET min_length == Min2(Min2(Len(alice_bits), Len(alice_bases)),
                         Min2(Len(partner_bases), Len(partner_results)))
  IN SiftLoop(0, min_length, alice_bases, partner_bases, alice_bits,
              [sifted_bits |-> <<>>, matching_indices |-> <<>>])

perform_sifting(alice_bits, alice_bases, partner_bases, partner_results) ==
  LET min_length == Min2(Min2(Len(alice_bits), Len(alice_bases)),
                         Min2(Len(partner_bases), Len(partner_results)))
  IN SiftLoop(0, min_length, alice_bases, partner_bases, partner_results,
              [sifted_bits |-> <<>>, matching_indices |-> <<>>])

\* variant: compares alice_bits[idx] instead of alice_bits[matching_indices[idx]]
NaturalErrorsDirect(alice_bits, sifted_bits, matching_indices) ==
  Cardinality({idx \in 0..(Len(sifted_bits) - 1) :
                 /\ idx < Len(matching_indices)
                 /\ idx < Len(alice_bits)
                 /\ At(alice_bits, idx) # At(sifted_bits, idx)})

\* the mismatch count of error_checking's loop over idx in range(total_bits)
NaturalErrors(alice_bits, sifted_bits, matching_indices) ==
  Cardinality({idx \in 0..(Len(sifted_bits) - 1) :
                 /\ idx < Len(matching_indices)
                 /\ At(matching_indices, idx) < Len(alice_bits)
                 /\ At(alice_bits, At(matching_indices, idx)) # At(sifted_bits, idx)})

\* variant: the sacrifice is removed even when it is the whole list
error_checking_unguarded(alice_bits, sifted_bits, matching_indices, has_eavesdropper) ==
  LET total_bits == Len(sifted_bits)
      natural == NaturalErrors(alice_bits, sifted_bits, matching_indices)
      additional == IF has_eavesdropper
                    THEN 1..Max2(1, total_bits \div 15)
                    ELSE {0}
  IN IF total_bits = 0
     THEN {[error_rate |-> ZeroRate, errors |-> 0, remaining_bits |-> <<>>]}
     ELSE {LET errors == natural + a
               sacrifice_count == Min2(errors + 1, Max2(1, total_bits \div 8))
           IN [error_rate |-> [num |-> errors, den |-> total_bits],
               errors |-> errors,
               remaining_bits |-> Take(sifted_bits, Max2(0, total_bits - sacrifice_count))]
           : a \in additional}

\* variant: one bit more than the errors found is removed, without the cap
error_checking_uncapped(alice_bits, sifted_bits, matching_indices, has_eavesdropper) ==
  LET total_bits == Len(sifted_bits)
      natural == NaturalErrors(alice_bits, sifted_bits, matching_indices)
      additional == IF has_eavesdropper
                    THEN 1..Max2(1, total_bits \div 15)
                    ELSE {0}
  IN IF total_bits = 0
     THEN {[error_rate |-> ZeroRate, errors |-> 0, remaining_bits |-> <<>>]}
     ELSE {LET errors == natural + a
               sacrifice_count == errors + 1
           IN [error_rate |-> [num |-> errors, den |-> total_bits],
               errors |-> errors,
               remaining_bits |->
                 IF sacrifice_count > 0 /\ sacrifice_count < total_bits
                 THEN Take(sifted_bits, total_bits - sacrifice_count)
                 ELSE sifted_bits]
           : a \in additional}

\* error_checking: the set of possible (error_rate, errors, remaining_bits)
error_checking(alice_bits, sifted_bits, matching_indices, has_eavesdropper) ==
  LET total_bits == Len(sifted_bits)
      natural == NaturalErrors(alice_bits, sifted_bits, matching_indices)
      additional == IF has_eavesdropper
                    THEN 1..Max2(1, total_bits \div 15)
                    ELSE {0}
  IN IF total_bits = 0
     THEN {[error_rate |-> ZeroRate, errors |-> 0, remaining_bits |-> <<>>]}
     ELSE {LET errors == natural + a
               sacrifice_count == Min2(errors + 1, Max2(1, total_bits \div 8))
           IN [error_rate |-> [num |-> errors, den |-> total_bits],
               errors |-> errors,
               remaining_bits |->
                 IF sacrifice_count > 0 /\ sacrifice_count < total_bits
                 THEN Take(sifted_bits, total_bits - sacrifice_count)
                 ELSE sifted_bits]
           : a \in additional}

\* error_checking of streamlit-keygen.py: as alice-app.py's but for the
\* number of injected errors
web_error_checking(alice_bits, sifted_bits, matching_indices, has_eavesdropper) ==
  LET total_bits == Len(sifted_bits)
      natural == NaturalErrors(alice_bits, sifted_bits, matching_indices)
      additional == IF ~has_eavesdropper THEN {0}
                    ELSE IF natural = 0 THEN 1..Max2(1, total_bits \div 10)
                    ELSE 0..Max2(1, total_bits \div 20)
  IN IF total_bits = 0
     THEN {[error_rate |-> ZeroRate, errors |-> 0, remaining_bits |-> <<>>]}
     ELSE {LET errors == natural + a
               sacrifice_count == Min2(errors + 1, Max2(1, total_bits \div 8))
           IN [error_rate |-> [num |-> errors, den |-> total_bits],
               errors |-> errors,
               remaining_bits |->
                 IF sacrifice_count > 0 /\ sacrifice_count < total_bits
                 THEN Take(sifted_bits, total_bits - sacrifice_count)
                 ELSE sifted_bits]
           : a \in additional}

\* int(bit_string[i:i+8], 2) for one group of 8 binary digits
RECURSIVE BinValue(_)
BinValue(digits) ==
  IF digits = <<>> THEN 0
  ELSE 2 * BinValue(SubSeq(digits, 1, Len(digits) - 1)) + digits[Len(digits)]

\* the while loop that appends '0' until the length is a multiple of 8
RECURSIVE PadTo8(_)
PadTo8(bit_string) ==
  IF Len(bit_string) % 8 = 0 THEN bit_string ELSE PadTo8(Append(bit_string, 0))

PackBytes(bit_string) ==
  [k \in 1..(Len(bit_string) \div 8) |-> BinValue(SubSeq(bit_string, 8 * k - 7, 8 * k))]

sha256_hexdigest(byte_data) == [len |-> 64, pre |-> byte_data]

\* variant: bit_string is packed without the padding
generate_final_key_unpadded(sifted_bits) ==
  IF sifted_bits = <<>> \/ Len(sifted_bits) < 4 THEN EmptyKey
  ELSE IF \E i \in 1..Len(sifted_bits) : sifted_bits[i] \notin {0, 1} THEN EmptyKey
  ELSE sha256_hexdigest(PackBytes(sifted_bits))

\* generate_final_key: EmptyKey stands for the None result.  An integer
\* other than 0 and 1 puts a character other than 0 and 1 into bit_string,
\* int(..., 2) raises ValueError and the except clause returns None.
generate_final_key(sifted_bits) ==
  IF sifted_bits = <<>> \/ Len(sifted_bits) < 4 THEN EmptyKey
  ELSE IF \E i \in 1..Len(sifted_bits) : sifted_bits[i] \notin {0, 1} THEN EmptyKey
  ELSE sha256_hexdigest(PackBytes(PadTo8(sifted_bits)))

\* generate_final_key of streamlit-keygen.py: a value other than 0 and 1 is
\* replaced by 0 before the bits are packed
web_generate_final_key(sifted_bits) ==
  IF sifted_bits = <<>> \/ Len(sifted_bits) < 4 THEN EmptyKey
  ELSE LET clean_bits == [i \in 1..Len(sifted_bits) |->
                            IF sifted_bits[i] \in {0, 1} THEN sifted_bits[i] ELSE 0]
       IN sha256_hexdigest(PackBytes(PadTo8(clean_bits)))

\* the eavesdropper loop of simulate_measurement: the possible transmitted_bits
EveTransmit(alice_bits, eve_present) ==
  IF eve_present
  THEN {alice_bits} \cup
       {[alice_bits EXCEPT ![k] = 1 - alice_bits[k]] : k \in 1..Min2(Len(alice_bits), MaxRandomPos)}
  ELSE {alice_bits}

\* variant: the result at an agreeing basis is read from alice_bits, not from
\* the bits the eavesdropper has touched
simulate_measurement_untouched(alice_bases, alice_bits, eve_present) ==
  LET n == Len(alice_bases)
  IN UNION {{IF \E i \in 1..n : bb[i] = alice_bases[i] /\ i > Len(t)
             THEN [bob_bases |-> <<>>, bob_results |-> <<>>,
                   transmitted_bits |-> t, error |-> "IndexError"]
             ELSE [bob_bases |-> bb,
                   bob_results |-> [i \in 1..n |-> IF bb[i] = alice_bases[i]
                                                  THEN alice_bits[i] ELSE r[i]],
                   transmitted_bits |-> t, error |-> ""]
             : bb \in RandomBits(n), r \in [1..n -> Bit]}
            : t \in EveTransmit(alice_bits, eve_present)}

\* simulate_measurement: the possible outcomes (bob_bases, bob_results),
\* with the function's local transmitted_bits.  The loop runs over
\* range(len(alice_bases)) and reads transmitted_bits[i] only where the
\* bases agree; a read past the end of transmitted_bits is an IndexError.
\* transmitted_bits starts as alice_bits with every value other than 0 and 1
\* replaced by 0.
simulate_measurement(alice_bases, alice_bits, eve_present) ==
  LET n == Len(alice_bases)
      clean_bits == [i \in 1..Len(alice_bits) |->
                       IF alice_bits[i] \in {0, 1} THEN alice_bits[i] ELSE 0]
  IN UNION {{IF \E i \in 1..n : bb[i] = alice_bases[i] /\ i > Len(t)
             THEN [bob_bases |-> <<>>, bob_results |-> <<>>,
                   transmitted_bits |-> t, error |-> "IndexError"]
             ELSE [bob_bases |-> bb,
                   bob_results |-> [i \in 1..n |-> IF bb[i] = alice_bases[i]
                                                  THEN t[i] ELSE r[i]],
                   transmitted_bits |-> t, error |-> ""]
             : bb \in RandomBits(n), r \in [1..n -> Bit]}
            : t \in EveTransmit(clean_bits, eve_present)}

\* simulate_transmission: the possible transmitted_bits
simulate_transmission(alice_bits, has_eavesdropper) == EveTransmit(alice_bits, has_eavesdropper)

\* bob_measurement: the possible (bob_bases, bob_results); the loop runs over
\* range(len(transmitted_bits)) and reads alice_bases[i]
bob_measurement(alice_bases, transmitted_bits) ==
  LET n == Len(transmitted_bits)
  IN IF Len(alice_bases) < n
     THEN {[bob_bases |-> <<>>, bob_results |-> <<>>, error |-> "IndexError"]}
     ELSE {[bob_bases |-> bb,
            bob_results |-> [i \in 1..n |-> IF bb[i] = alice_bases[i] THEN transmitted_bits[i] ELSE r[i]],
            error |-> ""] : bb \in RandomBits(n), r \in RandomBits(n)}

(***************************************************************************)
(* Handlers of alice-app.py: the dict each one saves, from the loaded dict *)
(***************************************************************************)
\* sidebar: the partner name was edited to selected_partner
ChangePartnerUpdate(state, selected_partner) ==
  [state EXCEPT !.alice_selected_partner = selected_partner,
                !.phase = Phase("greeting"),
                !.alice_ready = FALSE,
                !.bob_ready = FALSE,
                !.huot_ready = FALSE]

\* sidebar: the "Simulate Eavesdropper" checkbox was toggled
ToggleEveUpdate(state) == [state EXCEPT !.eve_present = ~state.eve_present]

\* "Send Greeting"
GreetUpdate(state, alice_message) ==
  [state EXCEPT !.alice_message = alice_message,
                !.alice_ready = TRUE,
                !.phase = WaitingResponse(state.alice_selected_partner)]

\* "Start Quantum Protocol"
StartProtocolUpdate(state) == [state EXCEPT !.phase = Phase("preparation")]

\* "Prepare Qubits"
PrepareUpdate(state, bits, bases) ==
  [state EXCEPT !.alice_bits = bits,
                !.alice_bases = bases,
                !.phase = Phase("transmission")]

\* variant: skips the wait for the measurement
TransmitUpdateSkip(state) == [state EXCEPT !.phase = Phase("sifting")]

\* "Send Qubits"
TransmitUpdate(state) ==
  [state EXCEPT !.phase = WaitingMeasurement(state.alice_selected_partner)]

\* "Start Sifting Process"
StartSiftingUpdate(state) == [state EXCEPT !.phase = Phase("sifting")]

\* "Perform Sifting"
PerformSiftingUpdate(state) ==
  LET p == state.alice_selected_partner
      r == perform_sifting(state.alice_bits, state.alice_bases,
                           GetBases(state, p), GetResults(state, p))
  IN [state EXCEPT !.sifted_bits = r.sifted_bits,
                   !.matching_indices = r.matching_indices,
                   !.phase = Phase("error_check")]

\* "Check Errors", for one result r of error_checking
CheckErrorsUpdate(state, r) ==
  [state EXCEPT !.error_rate = r.error_rate,
                !.sifted_bits = r.remaining_bits,
                !.phase = Phase("key_generation")]

\* variant: goes back one phase too far
BackToSiftingUpdate(state) == [state EXCEPT !.phase = Phase("sifting")]

\* "Back to Error Check"
BackToErrorCheckUpdate(state) == [state EXCEPT !.phase = Phase("error_check")]

\* "Generate Key", when generate_final_key returned a key
\* variant: the bits are dropped once the key is stored
GenerateKeyUpdateClearing(state, final_key) ==
  [state EXCEPT !.final_key = final_key, !.sifted_bits = <<>>, !.phase = Phase("complete")]

GenerateKeyUpdate(state, final_key) ==
  [state EXCEPT !.final_key = final_key, !.phase = Phase("complete")]

(***************************************************************************)
(* Handlers of bob-app.py                                                  *)
(***************************************************************************)
\* "Confirm Ready"
ConfirmReadyUpdate(state, bob_response) ==
  [state EXCEPT !.bob_message = bob_response,
                !.bob_ready = TRUE,
                !.phase = Phase("preparation")]

\* variant: hands the turn back to the sender
NotReadyUpdateGreeting(state) ==
  [state EXCEPT !.bob_ready = FALSE, !.phase = Phase("greeting")]

\* "Not Ready"
NotReadyUpdate(state) == [state EXCEPT !.bob_ready = FALSE]

\* "Start Measurements", for one result m of simulate_measurement
MeasureUpdate(state, m) ==
  [state EXCEPT !.bob_bases = m.bob_bases,
                !.bob_results = m.bob_results,
                !.phase = Phase("sifting")]

(***************************************************************************)
(* Steps of a script run                                                   *)
(***************************************************************************)
FnIdle == [stage |-> "idle"]

\* BB84GUI.__init__: only the welcome tab is enabled, every button starts
\* its operation.  sifted_bits and matching_indices are not attributes yet;
\* they read as empty here.  preparing holds, for each preparation thread
\* alive, the num_qubits its loop runs over.
GuiInit ==
  [num_qubits |-> 20, has_eavesdropper |-> FALSE,
   alice_bits |-> <<>>, alice_bases |-> <<>>,
   bob_bases |-> <<>>, bob_results |-> <<>>,
   sifted_bits |-> <<>>, matching_indices |-> <<>>,
   tabs |-> {0}, preparing |-> <<>>,
   prep_button |-> "start", transmit_button |-> "start",
   measure_button |-> "start", sifting_button |-> "start",
   last |-> "init", error |-> ""]

\* init_session_state of streamlit-keygen.py.  transmitted_bits and
\* matching_indices are not keys of the session state yet (has_transmitted,
\* has_matching).
WebInit ==
  [alice_bits |-> <<>>, alice_bases |-> <<>>,
   bob_bases |-> <<>>, bob_results |-> <<>>,
   sifted_bits |-> <<>>, final_key |-> EmptyKey,
   phase |-> "setup", error_rate |-> ZeroRate, eve_present |-> FALSE,
   transmitted_bits |-> <<>>, has_transmitted |-> FALSE,
   matching_indices |-> <<>>, has_matching |-> FALSE,
   error |-> ""]

sessionVars == <<file_exists, file, pc, local, stale, edits>>

InitSession ==
  /\ file_exists = FALSE
  /\ file = DefaultState
  /\ pc = [a \in Actors |-> "idle"]
  /\ local = [a \in Actors |-> DefaultState]
  /\ stale = [a \in Actors |-> 0]
  /\ edits = 0

Init == InitSession /\ fn = FnIdle /\ gui = GuiInit /\ web = WebInit

\* the other actors' runs that are between their load and their write
\* have seen fewer than MaxStale foreign writes
MayWrite(a) == \A b \in Actors \ {a} : pc[b] = "loaded" => stale[b] < MaxStale

Stale(a) == [b \in Actors |-> IF b # a /\ pc[b] = "loaded" THEN stale[b] + 1 ELSE stale[b]]

\* a script run starts: main() calls load_shared_state()
Load(a) ==
  /\ local' = [local EXCEPT ![a] = load_shared_state(file_exists, file)]
  /\ pc' = [pc EXCEPT ![a] = "loaded"]
  /\ stale' = [stale EXCEPT ![a] = 0]
  /\ UNCHANGED <<file_exists, file, edits, fn, gui, web>>

\* variant: a save that is dropped when the document's phase is no longer
\* the phase the writer loaded
SaveChecked(a, op, state) ==
  /\ pc[a] = "loaded"
  /\ MayWrite(a)
  /\ local' = [local EXCEPT ![a] = state]
  /\ IF load_shared_state(file_exists, file).phase = local[a].phase
     THEN file' = save_shared_state(state) /\ file_exists' = TRUE
     ELSE UNCHANGED <<file, file_exists>>
  /\ pc' = [pc EXCEPT ![a] = op]
  /\ stale' = Stale(a)
  /\ UNCHANGED <<fn, gui, web>>

\* the handler op of actor a modifies its dict to state and saves it
Save(a, op, state) ==
  /\ pc[a] = "loaded"
  /\ MayWrite(a)
  /\ local' = [local EXCEPT ![a] = state]
  /\ file' = save_shared_state(state)
  /\ file_exists' = TRUE
  /\ pc' = [pc EXCEPT ![a] = op]
  /\ stale' = Stale(a)
  /\ UNCHANGED <<fn, gui, web>>

Write(a, op, state) == Save(a, op, state) /\ UNCHANGED edits

\* variant: the rerun happens without the file being removed
UnlinkSkipped(a, op) ==
  /\ pc[a] = "loaded"
  /\ MayWrite(a)
  /\ pc' = [pc EXCEPT ![a] = op]
  /\ stale' = Stale(a)
  /\ UNCHANGED <<file_exists, file, local, edits, fn, gui, web>>

\* if SHARED_STATE_FILE.exists(): SHARED_STATE_FILE.unlink()
Unlink(a, op) ==
  /\ pc[a] = "loaded"
  /\ MayWrite(a)
  /\ file_exists' = FALSE
  /\ file' = DefaultState
  /\ pc' = [pc EXCEPT ![a] = op]
  /\ stale' = Stale(a)
  /\ UNCHANGED <<local, edits, fn, gui, web>>

\* the handler ran and saved nothing
NoWrite(a, op) ==
  /\ pc[a] = "loaded"
  /\ pc' = [pc EXCEPT ![a] = op]
  /\ UNCHANGED <<file_exists, file, local, stale, edits, fn, gui, web>>

Loaded(a) == pc[a] = "loaded"

SelectedPartner == local["alice"].alice_selected_partner

AliceChangePartner ==
  \E p \in Partners :
    /\ Loaded("alice")
    /\ p # local["alice"].alice_selected_partner
    /\ edits < MaxEdits
    /\ edits' = edits + 1
    /\ Save("alice", "change_partner", ChangePartnerUpdate(local["alice"], p))

AliceToggleEve ==
  /\ Loaded("alice")
  /\ edits < MaxEdits
  /\ edits' = edits + 1
  /\ Save("alice", "toggle_eve", ToggleEveUpdate(local["alice"]))

AliceGreet ==
  \E msg \in GreetingTexts :
    /\ Loaded("alice")
    /\ local["alice"].phase = Phase("greeting")
    /\ Write("alice", "greet", GreetUpdate(local["alice"], msg))

AliceStartProtocol ==
  /\ Loaded("alice")
  /\ local["alice"].phase = WaitingResponse(SelectedPartner)
  /\ GetReady(local["alice"], SelectedPartner)
  /\ Write("alice", "start_protocol", StartProtocolUpdate(local["alice"]))

AlicePrepare ==
  \E n \in {MaxQubits} :
    \E q \in generate_qubits(n) :
      /\ Loaded("alice")
      /\ local["alice"].phase = Phase("preparation")
      /\ Write("alice", "prepare", PrepareUpdate(local["alice"], q[1], q[2]))

AliceTransmit ==
  /\ Loaded("alice")
  /\ local["alice"].phase = Phase("transmission")
  /\ Write("alice", "transmit", TransmitUpdate(local["alice"]))

AliceStartSifting ==
  /\ Loaded("alice")
  /\ local["alice"].phase = WaitingMeasurement(SelectedPartner)
  /\ GetResults(local["alice"], SelectedPartner) # <<>>
  /\ Write("alice", "start_sifting", StartSiftingUpdate(local["alice"]))

AlicePerformSifting ==
  /\ Loaded("alice")
  /\ local["alice"].phase = Phase("sifting")
  /\ Write("alice", "perform_sifting", PerformSiftingUpdate(local["alice"]))

AliceCheckErrors ==
  /\ Loaded("alice")
  /\ local["alice"].phase = Phase("error_check")
  /\ \E r \in error_checking(local["alice"].alice_bits, local["alice"].sifted_bits,
                             local["alice"].matching_indices, local["alice"].eve_present) :
       Write("alice", "check_errors", CheckErrorsUpdate(local["alice"], r))

\* the branch of the key_generation phase that shows the recovery buttons
NotEnoughBits(state) ==
  state.phase = Phase("key_generation") /\ Len(state.sifted_bits) < 4

\* the final key display is rendered
KeyShown(state) == state.final_key # EmptyKey

\* key_generation with sifted_count < 4: "Restart Protocol"
AliceRestart ==
  /\ Loaded("alice")
  /\ NotEnoughBits(local["alice"])
  /\ Unlink("alice", "restart")

\* key_generation with sifted_count < 4: "Back to Error Check"
AliceBackToErrorCheck ==
  /\ Loaded("alice")
  /\ NotEnoughBits(local["alice"])
  /\ Write("alice", "back_to_error_check", BackToErrorCheckUpdate(local["alice"]))

\* variant: the button is offered and the key is made whatever the number of bits
AliceGenerateKeyAnyLength ==
  /\ Loaded("alice")
  /\ local["alice"].phase = Phase("key_generation")
  /\ LET final_key == sha256_hexdigest(PackBytes(PadTo8(local["alice"].sifted_bits)))
     IN Write("alice", "generate_key", GenerateKeyUpdate(local["alice"], final_key))

\* key_generation with sifted_count >= 4: "Generate Key"
AliceGenerateKey ==
  /\ Loaded("alice")
  /\ local["alice"].phase = Phase("key_generation")
  /\ Len(local["alice"].sifted_bits) >= 4
  /\ LET final_key == generate_final_key(local["alice"].sifted_bits)
     IN IF final_key # EmptyKey
        THEN Write("alice", "generate_key", GenerateKeyUpdate(local["alice"], final_key))
        ELSE NoWrite("alice", "generate_key")

\* final key display: "Start New Protocol"
AliceStartNewProtocol ==
  /\ Loaded("alice")
  /\ KeyShown(local["alice"])
  /\ Unlink("alice", "start_new_protocol")

BobCanRespond ==
  /\ Loaded("bob")
  /\ local["bob"].phase = WaitingResponse("bob")
  /\ local["bob"].alice_message # ""

BobConfirmReady ==
  \E resp \in ResponseTexts :
    /\ BobCanRespond
    /\ Write("bob", "confirm_ready", ConfirmReadyUpdate(local["bob"], resp))

BobNotReady ==
  /\ BobCanRespond
  /\ Write("bob", "not_ready", NotReadyUpdate(local["bob"]))

BobMeasure ==
  /\ Loaded("bob")
  /\ local["bob"].phase = WaitingMeasurement("bob")
  /\ \E m \in simulate_measurement(local["bob"].alice_bases, local["bob"].alice_bits,
                                   local["bob"].eve_present) :
       IF m.error # ""
       THEN NoWrite("bob", "measure")
       ELSE Write("bob", "measure", MeasureUpdate(local["bob"], m))

Next ==
  \/ \E a \in Actors : Load(a)
  \/ AliceChangePartner
  \/ AliceToggleEve
  \/ AliceGreet
  \/ AliceStartProtocol
  \/ AlicePrepare
  \/ AliceTransmit
  \/ AliceStartSifting
  \/ AlicePerformSifting
  \/ AliceCheckErrors
  \/ AliceRestart
  \/ AliceBackToErrorCheck
  \/ AliceGenerateKey
  \/ AliceStartNewProtocol
  \/ BobConfirmReady
  \/ BobNotReady
  \/ BobMeasure

Spec == Init /\ [][Next]_vars

\* sessions in which the eavesdropper checkbox is left alone
NextNoEve ==
  \/ \E a \in Actors : Load(a)
  \/ AliceChangePartner
  \/ AliceGreet
  \/ AliceStartProtocol
  \/ AlicePrepare
  \/ AliceTransmit
  \/ AliceStartSifting
  \/ AlicePerformSifting
  \/ AliceCheckErrors
  \/ AliceRestart
  \/ AliceBackToErrorCheck
  \/ AliceGenerateKey
  \/ AliceStartNewProtocol
  \/ BobConfirmReady
  \/ BobNotReady
  \/ BobMeasure

SpecNoEve == Init /\ [][NextNoEve]_vars

(***************************************************************************)
(* The reruns the scripts make on their own: st.rerun() at the end of a    *)
(* handler, and the auto-refresh at the end of main().  Every other Load   *)
(* is a reload or an interaction by the user.                              *)
(***************************************************************************)
\* the handlers that end with st.rerun(): all but the eavesdropper checkbox
\* and "Not Ready"
RerunOps ==
  {"change_partner", "greet", "start_protocol", "prepare", "transmit", "start_sifting",
   "perform_sifting", "check_errors", "back_to_error_check", "generate_key",
   "restart", "start_new_protocol", "confirm_ready", "measure"}

Rerun(a) == pc[a] \in RerunOps /\ Load(a)

\* the phases in which main() ends with time.sleep(2); st.rerun()
RefreshPhases(a, state) ==
  IF a = "alice"
  THEN {WaitingResponse(state.alice_selected_partner),
        WaitingMeasurement(state.alice_selected_partner)}
  ELSE {Phase("greeting"), Phase("preparation"), Phase("transmission"),
        Phase("sifting"), Phase("error_check"), Phase("key_generation")}

\* a run that did not end in st.rerun() reaches the auto-refresh
AutoRefresh(a) ==
  /\ pc[a] \notin {"idle"} \cup RerunOps
  /\ local[a].phase \in RefreshPhases(a, local[a])
  /\ Load(a)

NextLive == Next \/ (\E a \in Actors : Rerun(a)) \/ (\E a \in Actors : AutoRefresh(a))

\* the scripts' own reruns happen; the users may stop acting at any time
SpecLive ==
  /\ Init
  /\ [][NextLive]_vars
  /\ \A a \in Actors : WF_vars(Rerun(a)) /\ WF_vars(AutoRefresh(a))

(***************************************************************************)
(* One session in which both users keep pressing the protocol buttons      *)
(* their pages offer: the sender picks the partner before the greeting,    *)
(* and nobody resets, changes the partner afterwards or toggles the        *)
(* eavesdropper.                                                           *)
(***************************************************************************)
\* the user opens the page
OpenPage(a) == pc[a] = "idle" /\ Load(a)

\* the partner name is typed before the greeting is sent
AliceChoosePartner ==
  /\ local["alice"].phase = Phase("greeting")
  /\ AliceChangePartner

\* "Start Sifting Process" is left out: the partner's measurement stores
\* phase sifting itself, so without stale sidebar writes it is never offered
AliceProtocolStep ==
  \/ AliceGreet
  \/ AliceStartProtocol
  \/ AlicePrepare
  \/ AliceTransmit
  \/ AlicePerformSifting
  \/ AliceCheckErrors
  \/ AliceGenerateKey

BobProtocolStep == BobConfirmReady \/ BobMeasure

NextProgress ==
  \/ \E a \in Actors : Load(a)
  \/ AliceChoosePartner
  \/ AliceProtocolStep
  \/ BobProtocolStep

\* the pages are opened, the scripts' own reruns happen, and a button that
\* is offered again and again is pressed
SpecProgress ==
  /\ Init
  /\ [][NextProgress]_vars
  /\ \A a \in Actors : WF_vars(OpenPage(a)) /\ WF_vars(Rerun(a)) /\ WF_vars(AutoRefresh(a))
  /\ SF_vars(AliceProtocolStep)
  /\ SF_vars(BobProtocolStep)

(***************************************************************************)
(* The protocol functions on their own: perform_sifting followed by        *)
(* error_checking, for every input within MaxLen and for the reference     *)
(* scenario.                                                               *)
(***************************************************************************)
Scenario ==
  [alice_bits |-> <<1, 0, 1, 1, 0, 0, 1, 0>>,
   alice_bases |-> <<0, 1, 0, 0, 1, 1, 0, 1>>,
   partner_bases |-> <<0, 0, 0, 0, 1, 1, 0, 0>>,
   partner_results |-> <<1, 1, 1, 1, 0, 0, 1, 0>>]

\* lists of LongLen elements and of some shorter lengths: every basis
\* agrees, and the receiver's result differs from the sender's bit at the
\* first j positions
LongInputs ==
  {[alice_bits |-> [i \in 1..LongLen |-> 0],
    alice_bases |-> [i \in 1..LongLen |-> 0],
    partner_bases |-> [i \in 1..LongLen |-> 0],
    partner_results |-> [i \in 1..LongLen |-> IF i <= j THEN 1 ELSE 0]] : j \in 0..2}
  \cup {[alice_bits |-> [i \in 1..n |-> 0],
          alice_bases |-> [i \in 1..n |-> 0],
          partner_bases |-> [i \in 1..n |-> 0],
          partner_results |-> [i \in 1..n |-> IF i <= j THEN 1 ELSE 0]] :
          n \in {MinKeyBits, MinKeyBits + 1, LongLen \div 2, LongLen - 1}, j \in 0..1}

FnInputs ==
  [alice_bits : BitLists(MaxLen), alice_bases : BitLists(MaxLen),
   partner_bases : BitLists(MaxLen), partner_results : BitLists(MaxLen)]
  \cup {Scenario} \cup LongInputs

\* quantum-keygen.py _privacy_amplification: it has no length check of its own
privacy_amplification(bits) == sha256_hexdigest(PackBytes(PadTo8(bits)))

\* random.sample(range(n), sample_size), as sets of 0-based positions: the
\* first sample_size positions or the last ones
console_samples(n, sample_size) ==
  {0..(sample_size - 1), (n - sample_size)..(n - 1)}

\* the sublist of s at the 0-based positions outside sample_indices, in order
RECURSIVE KeepOutside(_, _, _)
KeepOutside(s, sample_indices, i) ==
  IF i >= Len(s) THEN <<>>
  ELSE IF i \in sample_indices THEN KeepOutside(s, sample_indices, i + 1)
       ELSE <<At(s, i)>> \o KeepOutside(s, sample_indices, i + 1)

\* steps 6 to 8 of run_interactive_generation after the sifted list is built:
\* the possible results, outcome "key" carrying the returned key
console_key_steps(alice_bits, sifted_bits, matching_indices, has_eavesdropper) ==
  LET n == Len(sifted_bits)
      none(outcome, bits) == [outcome |-> outcome, key |-> EmptyKey, bits |-> bits]
  IN IF n < 8 THEN {none("too_few", sifted_bits)}
     ELSE IF n >= 10
     THEN LET sample_size == Min2(10, n \div 2)
          IN UNION {
               LET natural == Cardinality({idx \in sample_indices :
                                 At(alice_bits, At(matching_indices, idx)) # At(sifted_bits, idx)})
                   remaining == KeepOutside(sifted_bits, sample_indices, 0)
                   added == IF has_eavesdropper
                            THEN 2..Min2(4, sample_size - natural)
                            ELSE {0}
               IN IF added = {} THEN {none("value_error", sifted_bits)}
                  ELSE {IF 10 * (natural + a) > 3 * sample_size
                        THEN none("rate_too_high", remaining)
                        ELSE [outcome |-> "key", key |-> privacy_amplification(remaining),
                              bits |-> remaining] : a \in added}
               : sample_indices \in console_samples(n, sample_size)}
     ELSE {[outcome |-> "key", key |-> privacy_amplification(sifted_bits),
            bits |-> sifted_bits]}

\* quantum-keygen.py, Eve's interception: the possible (alice_bits,
\* alice_bases) after the loop.  An intercepted qubit is recorded with Eve's
\* basis; when that is Alice's basis the entry is as before, otherwise the
\* bit is random and the basis is the other one.
console_intercept(alice_bits, alice_bases) ==
  {<<alice_bits, alice_bases>>} \cup
  {<<[alice_bits EXCEPT ![k] = b], [alice_bases EXCEPT ![k] = 1 - alice_bases[k]]>> :
     k \in 1..Min2(Len(alice_bits), MaxRandomPos), b \in Bit}

\* variant: at an agreeing basis Bob reads the opposite bit
console_measure_flipped(alice_bases, alice_bits) ==
  LET n == Len(alice_bases)
  IN {[bob_bases |-> bb,
       bob_results |-> [i \in 1..n |-> IF alice_bases[i] = bb[i] THEN 1 - alice_bits[i] ELSE r[i]]]
        : bb \in RandomBits(n), r \in RandomBits(n)}

\* quantum-keygen.py, step 5: the possible (bob_bases, bob_results); all
\* three measurement strategies give alice_bits[i] where the bases agree and
\* a random bit elsewhere
console_measure(alice_bases, alice_bits) ==
  LET n == Len(alice_bases)
  IN {[bob_bases |-> bb,
       bob_results |-> [i \in 1..n |-> IF alice_bases[i] = bb[i] THEN alice_bits[i] ELSE r[i]]]
        : bb \in RandomBits(n), r \in RandomBits(n)}

\* the qubits of a run of the console program: LongLen of them, the bits and
\* the bases 1 at the first j positions
ConsoleLists == {[i \in 1..LongLen |-> IF i <= j THEN 1 ELSE 0] : j \in {0, 1, 2, LongLen - 10}}

\* the sender's lists of two sessions of TwinLen qubits
TwinLists ==
  {[i \in 1..TwinLen |-> IF i <= j THEN 1 ELSE 0] : j \in 0..2}
  \cup {[i \in 1..TwinLen |-> IF i = 2 THEN 1 ELSE 0], [i \in 1..TwinLen |-> 1]}

\* one session: the sender's bits and what the steps made of them
TwinRun(alice_bits) ==
  [alice_bits |-> alice_bits,
   out |-> [bob_bases |-> <<>>, bob_results |-> <<>>, transmitted_bits |-> <<>>,
            error |-> ""],
   sifted_bits |-> <<>>, matching_indices |-> <<>>,
   errors |-> 0, remaining_bits |-> <<>>, final_key |-> EmptyKey]

\* the steps from the measurement to the key, for one result m of
\* simulate_measurement and one result r of error_checking
TwinSteps(run, alice_bases, m, r) ==
  LET sift == perform_sifting(run.alice_bits, alice_bases, m.bob_bases, m.bob_results)
  IN [run EXCEPT !.out = m,
                 !.sifted_bits = sift.sifted_bits,
                 !.matching_indices = sift.matching_indices,
                 !.errors = r.errors,
                 !.remaining_bits = r.remaining_bits,
                 !.final_key = generate_final_key(r.remaining_bits)]

FnStart(in) ==
  [stage |-> "input", in |-> in,
   sifted_bits |-> <<>>, matching_indices |-> <<>>,
   eve |-> FALSE, error_rate |-> ZeroRate, errors |-> 0, remaining_bits |-> <<>>,
   final_key |-> EmptyKey, web_key |-> EmptyKey,
   console |-> [outcome |-> "none", key |-> EmptyKey, bits |-> <<>>]]

(***************************************************************************)
(* quantum_encryption.py: the one-time pad.  A hex string is the sequence  *)
(* of its digits' values, a message the sequence of its code points.       *)
(***************************************************************************)
\* bytes.fromhex: a ValueError for an odd number of digits
fromhex(hex) ==
  IF Len(hex) % 2 = 1 THEN [ok |-> FALSE, bytes |-> <<>>]
  ELSE [ok |-> TRUE,
        bytes |-> [k \in 1..(Len(hex) \div 2) |-> 16 * hex[2 * k - 1] + hex[2 * k]]]

\* bytes.hex()
tohex(bytes) ==
  [k \in 1..(2 * Len(bytes)) |->
     IF k % 2 = 1 THEN bytes[(k + 1) \div 2] \div 16 ELSE bytes[k \div 2] % 16]

\* for byte in bytes: bits.extend([(byte >> i) & 1 for i in range(7, -1, -1)])
bits_of(bytes) ==
  [j \in 1..(8 * Len(bytes)) |->
     (bytes[(j - 1) \div 8 + 1] \div (2 ^ (7 - ((j - 1) % 8)))) % 2]

\* str.encode('utf-8') for code points below 0x800
RECURSIVE utf8_encode(_)
utf8_encode(message) ==
  IF message = <<>> THEN <<>>
  ELSE LET c == Head(message)
       IN (IF c < 128 THEN <<c>>
           ELSE <<192 + (c \div 64), 128 + (c % 64)>>) \o utf8_encode(Tail(message))

\* bytes.decode('utf-8') for sequences of at most two bytes per character:
\* a UnicodeDecodeError otherwise
RECURSIVE utf8_decode(_)
utf8_decode(bytes) ==
  IF bytes = <<>> THEN [ok |-> TRUE, text |-> <<>>]
  ELSE LET b == Head(bytes)
       IN IF b < 128
          THEN LET r == utf8_decode(Tail(bytes))
               IN [ok |-> r.ok, text |-> <<b>> \o r.text]
          ELSE IF /\ b >= 194 /\ b < 224 /\ Len(bytes) >= 2
                  /\ bytes[2] >= 128 /\ bytes[2] < 192
          THEN LET r == utf8_decode(SubSeq(bytes, 3, Len(bytes)))
               IN [ok |-> r.ok, text |-> <<(b - 192) * 64 + (bytes[2] - 128)>> \o r.text]
          ELSE [ok |-> FALSE, text |-> <<>>]

\* for a, b in zip(bits, key_bits): a ^ b
xor_bits(bits, key_bits) ==
  [j \in 1..Min2(Len(bits), Len(key_bits)) |-> (bits[j] + key_bits[j]) % 2]

EncryptFailed(error) == [success |-> FALSE, error |-> error, encrypted_hex |-> <<>>]

\* /api/encrypt; error "exception" is the except branch
encrypt(message, key) ==
  IF message = <<>> \/ key = <<>> THEN EncryptFailed("required")
  ELSE LET key_bytes == fromhex(key)
       IN IF ~key_bytes.ok THEN EncryptFailed("exception")
          ELSE LET key_bits == bits_of(key_bytes.bytes)
                   message_bits == bits_of(utf8_encode(message))
               IN IF Len(key_bits) < Len(message_bits) THEN EncryptFailed("key_too_short")
                  ELSE [success |-> TRUE, error |-> "",
                        encrypted_hex |-> tohex(PackBytes(xor_bits(message_bits, key_bits)))]

DecryptFailed(error) == [success |-> FALSE, error |-> error, decrypted_message |-> <<>>]

\* /api/decrypt
decrypt(encrypted, key) ==
  IF encrypted = <<>> \/ key = <<>> THEN DecryptFailed("required")
  ELSE LET key_bytes == fromhex(key)
           cipher_bytes == fromhex(encrypted)
       IN IF ~key_bytes.ok \/ ~cipher_bytes.ok THEN DecryptFailed("exception")
          ELSE LET key_bits == bits_of(key_bytes.bytes)
                   cipher_bits == bits_of(cipher_bytes.bytes)
               IN IF Len(key_bits) < Len(cipher_bits) THEN DecryptFailed("key_too_short")
                  ELSE LET plain == utf8_decode(PackBytes(xor_bits(cipher_bits, key_bits)))
                       IN IF ~plain.ok THEN DecryptFailed("exception")
                          ELSE [success |-> TRUE, error |-> "",
                                decrypted_message |-> plain.text]

\* the sequences over S of length at most n
RECURSIVE SeqsUpTo(_, _)
SeqsUpTo(S, n) ==
  IF n = 0 THEN {<<>>}
  ELSE LET shorter == SeqsUpTo(S, n - 1)
       IN shorter \cup {Append(q, x) : q \in shorter, x \in S}

\* keys of hex digits 0, a and f; messages of the characters "A" and "é"
OtpKeys == SeqsUpTo({0, 10, 15}, MaxKeyDigits)

OtpMessages == SeqsUpTo({65, 233}, MaxMessageLen)

OtpStart(message, key) ==
  [stage |-> "otp", message |-> message, key |-> key,
   enc |-> EncryptFailed(""), dec_key |-> key, dec |-> DecryptFailed("")]

\* documents a state file may hold
FileContents ==
  {[DefaultState EXCEPT !.phase = ph, !.alice_bits = b, !.alice_bases = b,
                        !.final_key = k, !.bob_ready = (b # <<>>)] :
     ph \in {Phase("greeting"), WaitingResponse("bob"), Phase("complete")},
     b \in BitLists(2),
     k \in {EmptyKey, generate_final_key(<<1, 0, 1, 1>>)}}

\* a state file before application app reads it
FileStart(app, exists, parses, content) ==
  [stage |-> "file", app |-> app, exists |-> exists, parses |-> parses,
   content |-> content, raised |-> FALSE, state |-> content]

\* the arguments of one call of a measurement function
MeasureStart(alice_bases, bits, eve_present) ==
  [stage |-> "measure", alice_bases |-> alice_bases, bits |-> bits,
   eve_present |-> eve_present, app |-> "none",
   out |-> [bob_bases |-> <<>>, bob_results |-> <<>>, transmitted_bits |-> <<>>,
            error |-> ""]]

\* bit lists long enough for a key
KeyBitLists == UNION {[1..n -> Bit] : n \in MinKeyBits..MaxKeyBits}

\* lists that hold a value other than 0 and 1
UncleanLists(n) == {s \in [1..n -> {0, 1, 2}] : \E i \in 1..n : s[i] = 2}

\* a list of values handed to the key generation and to the measurement
UncleanStart(bits) ==
  [stage |-> "unclean", bits |-> bits, alice_bases |-> [i \in 1..Len(bits) |-> 0],
   final_key |-> EmptyKey, web_key |-> EmptyKey,
   out |-> [bob_bases |-> <<>>, bob_results |-> <<>>, transmitted_bits |-> <<>>,
            error |-> ""]]

InitFn ==
  /\ InitSession
  /\ fn \in {FnStart(in) : in \in FnInputs}
            \cup {UncleanStart(bits) : bits \in UncleanLists(MinKeyBits)}
            \cup {[stage |-> "console_start", alice_bits |-> bits, alice_bases |-> bases,
                    eve_present |-> eve_present,
                    bob_bases |-> <<>>, bob_results |-> <<>>,
                    sifted_bits |-> <<>>, matching_indices |-> <<>>,
                    bits_after |-> <<>>, bases_after |-> <<>>,
                    console |-> [outcome |-> "none", key |-> EmptyKey, bits |-> <<>>]] :
                     bits \in ConsoleLists, bases \in ConsoleLists, eve_present \in BOOLEAN}
            \cup {[stage |-> "twin", alice_bases |-> bases, eve_present |-> eve_present,
                    a |-> TwinRun(bits), b |-> TwinRun(other)] :
                     bases \in TwinLists, bits \in TwinLists, other \in TwinLists,
                     eve_present \in BOOLEAN}
            \cup {[stage |-> "pair", a |-> a, b |-> b,
                    key_a |-> EmptyKey, key_b |-> EmptyKey,
                    console_a |-> EmptyKey, console_b |-> EmptyKey] :
                     a \in KeyBitLists, b \in KeyBitLists}
            \cup {MeasureStart(alice_bases, bits, eve_present) :
                    alice_bases \in BitLists(MaxLen), bits \in BitLists(MaxLen),
                    eve_present \in BOOLEAN}
            \cup {FileStart(app, exists, parses, content) :
                    app \in Actors, exists \in BOOLEAN, parses \in BOOLEAN,
                    content \in FileContents}
            \cup {OtpStart(message, key) : message \in OtpMessages, key \in OtpKeys}
  /\ gui = GuiInit
  /\ web = WebInit

\* load_shared_state() is called on the file
FnLoad ==
  /\ fn.stage = "file"
  /\ LET r == load_shared_state_of(fn.app, fn.exists, fn.parses, fn.content)
     IN fn' = [fn EXCEPT !.stage = "read", !.raised = r.raised, !.state = r.state]
  /\ UNCHANGED <<sessionVars, gui, web>>

FnSift ==
  /\ fn.stage = "input"
  /\ LET r == perform_sifting(fn.in.alice_bits, fn.in.alice_bases,
                              fn.in.partner_bases, fn.in.partner_results)
     IN fn' = [fn EXCEPT !.stage = "sifted",
                         !.sifted_bits = r.sifted_bits,
                         !.matching_indices = r.matching_indices]
  /\ UNCHANGED <<sessionVars, gui, web>>

FnCheckErrors ==
  /\ fn.stage = "sifted"
  /\ \E eve \in BOOLEAN :
       \E r \in error_checking(fn.in.alice_bits, fn.sifted_bits, fn.matching_indices, eve) :
         fn' = [fn EXCEPT !.stage = "checked",
                          !.eve = eve,
                          !.error_rate = r.error_rate,
                          !.errors = r.errors,
                          !.remaining_bits = r.remaining_bits]
  /\ UNCHANGED <<sessionVars, gui, web>>

\* streamlit-keygen.py: error_checking on the sifted list
FnWebCheckErrors ==
  /\ fn.stage = "sifted"
  /\ \E eve \in BOOLEAN :
       \E r \in web_error_checking(fn.in.alice_bits, fn.sifted_bits, fn.matching_indices, eve) :
         fn' = [fn EXCEPT !.stage = "web_checked", !.eve = eve,
                          !.error_rate = r.error_rate, !.errors = r.errors,
                          !.remaining_bits = r.remaining_bits]
  /\ UNCHANGED <<sessionVars, gui, web>>

\* generate_final_key of alice-app.py and of streamlit-keygen.py on a list
\* that holds a value other than 0 and 1
FnGenerateKeyUnclean ==
  /\ fn.stage = "unclean"
  /\ fn' = [fn EXCEPT !.stage = "unclean_distilled",
                      !.final_key = generate_final_key(fn.bits),
                      !.web_key = web_generate_final_key(fn.bits)]
  /\ UNCHANGED <<sessionVars, gui, web>>

\* generate_final_key of alice-app.py and _privacy_amplification of
\* quantum-keygen.py, each applied to two lists
FnDistillPair ==
  /\ fn.stage = "pair"
  /\ fn' = [fn EXCEPT !.stage = "pair_distilled",
                      !.key_a = generate_final_key(fn.a),
                      !.key_b = generate_final_key(fn.b),
                      !.console_a = privacy_amplification(fn.a),
                      !.console_b = privacy_amplification(fn.b)]
  /\ UNCHANGED <<sessionVars, gui, web>>

\* simulate_measurement of bob-app.py on such a list
FnMeasureUnclean ==
  /\ fn.stage = "unclean"
  /\ \E m \in simulate_measurement(fn.alice_bases, fn.bits, FALSE) :
       fn' = [fn EXCEPT !.stage = "unclean_measured", !.out = m]
  /\ UNCHANGED <<sessionVars, gui, web>>

\* key generation from the bits the error check left, by alice-app.py's and
\* by streamlit-keygen.py's generate_final_key
FnGenerateKey ==
  /\ fn.stage = "checked"
  /\ fn' = [fn EXCEPT !.stage = "distilled",
                      !.final_key = generate_final_key(fn.remaining_bits),
                      !.web_key = web_generate_final_key(fn.remaining_bits)]
  /\ UNCHANGED <<sessionVars, gui, web>>

\* the console program's continuation from the sifted list
FnConsole ==
  /\ fn.stage = "sifted"
  /\ \E has_eavesdropper \in BOOLEAN :
       \E r \in console_key_steps(fn.in.alice_bits, fn.sifted_bits,
                                  fn.matching_indices, has_eavesdropper) :
         fn' = [fn EXCEPT !.stage = "console", !.eve = has_eavesdropper, !.console = r]
  /\ UNCHANGED <<sessionVars, gui, web>>

\* a request to /api/encrypt
FnEncrypt ==
  /\ fn.stage = "otp"
  /\ fn' = [fn EXCEPT !.stage = "encrypted", !.enc = encrypt(fn.message, fn.key)]
  /\ UNCHANGED <<sessionVars, gui, web>>

\* a request to /api/decrypt with the ciphertext returned, under the same
\* key or under the key without its last two digits
FnDecrypt ==
  /\ fn.stage = "encrypted"
  /\ fn.enc.success
  /\ \E dec_key \in {fn.key, SubSeq(fn.key, 1, Max2(0, Len(fn.key) - 2))} :
       fn' = [fn EXCEPT !.stage = "decrypted", !.dec_key = dec_key,
                        !.dec = decrypt(fn.enc.encrypted_hex, dec_key)]
  /\ UNCHANGED <<sessionVars, gui, web>>

\* bob-app.py: simulate_measurement(alice_bases, alice_bits, method, eve_present)
FnMeasure ==
  /\ fn.stage = "measure"
  /\ \E m \in simulate_measurement(fn.alice_bases, fn.bits, fn.eve_present) :
       fn' = [fn EXCEPT !.stage = "measured", !.app = "bob", !.out = m]
  /\ UNCHANGED <<sessionVars, gui, web>>

\* streamlit-keygen.py: simulate_transmission, then
\* bob_measurement(alice_bases, transmitted_bits, method)
FnWebMeasure ==
  /\ fn.stage = "measure"
  /\ \E t \in simulate_transmission(fn.bits, fn.eve_present) :
       \E m \in bob_measurement(fn.alice_bases, t) :
         fn' = [fn EXCEPT !.stage = "measured", !.app = "web",
                          !.out = [bob_bases |-> m.bob_bases,
                                   bob_results |-> m.bob_results,
                                   transmitted_bits |-> t,
                                   error |-> m.error]]
  /\ UNCHANGED <<sessionVars, gui, web>>

\* the lists a front end holds after its transmission step
Transmitted(app, in, bits, bases) ==
  [stage |-> "transmitted", app |-> app, alice_bits |-> in.bits,
   alice_bases |-> in.alice_bases, eve_present |-> in.eve_present,
   bits_after |-> bits, bases_after |-> bases]

\* streamlit-keygen.py: simulate_transmission(alice_bits, alice_bases, has_eavesdropper)
FnTransmit ==
  /\ fn.stage = "measure"
  /\ \E t \in simulate_transmission(fn.bits, fn.eve_present) :
       fn' = Transmitted("web", fn, t, fn.alice_bases)
  /\ UNCHANGED <<sessionVars, gui, web>>

\* quantum-keygen.py: step 4 of run_interactive_generation; alice_bits and
\* alice_bases were generated with num_qubits elements each
FnConsoleTransmit ==
  /\ fn.stage = "measure"
  /\ Len(fn.bits) = Len(fn.alice_bases)
  /\ IF fn.eve_present
     THEN \E q \in console_intercept(fn.bits, fn.alice_bases) :
            fn' = Transmitted("console", fn, q[1], q[2])
     ELSE fn' = Transmitted("console", fn, fn.bits, fn.alice_bases)
  /\ UNCHANGED <<sessionVars, gui, web>>

\* quantum-keygen.py: steps 4 to 8 of run_interactive_generation, from the
\* prepared qubits to the key.  The sifting loop is perform_sifting's on
\* lists of num_qubits elements.
FnConsoleRun ==
  /\ fn.stage = "console_start"
  /\ \E q \in IF fn.eve_present THEN console_intercept(fn.alice_bits, fn.alice_bases)
                ELSE {<<fn.alice_bits, fn.alice_bases>>} :
       \E m \in console_measure(q[2], q[1]) :
         LET sift == perform_sifting(q[1], q[2], m.bob_bases, m.bob_results)
         IN \E r \in console_key_steps(q[1], sift.sifted_bits, sift.matching_indices,
                                        fn.eve_present) :
              fn' = [fn EXCEPT !.stage = "console_run",
                               !.bits_after = q[1], !.bases_after = q[2],
                               !.bob_bases = m.bob_bases, !.bob_results = m.bob_results,
                               !.sifted_bits = sift.sifted_bits,
                               !.matching_indices = sift.matching_indices,
                               !.console = r]
  /\ UNCHANGED <<sessionVars, gui, web>>

\* two sessions with the same bases are measured, sifted, checked and
\* distilled with the same random choices: Bob's bases, his results where
\* the bases differ, the value Eve puts at a position, the errors injected
FnTwinRun ==
  /\ fn.stage = "twin"
  /\ \E ma \in simulate_measurement(fn.alice_bases, fn.a.alice_bits, fn.eve_present),
        mb \in simulate_measurement(fn.alice_bases, fn.b.alice_bits, fn.eve_present) :
       /\ ma.error = "" /\ mb.error = ""
       /\ ma.bob_bases = mb.bob_bases
       /\ \A i \in 1..TwinLen :
            /\ ma.bob_bases[i] # fn.alice_bases[i] => ma.bob_results[i] = mb.bob_results[i]
            /\ (ma.transmitted_bits[i] # fn.a.alice_bits[i]
                \/ mb.transmitted_bits[i] # fn.b.alice_bits[i])
                 => ma.transmitted_bits[i] = mb.transmitted_bits[i]
       /\ LET sa == perform_sifting(fn.a.alice_bits, fn.alice_bases, ma.bob_bases, ma.bob_results)
              sb == perform_sifting(fn.b.alice_bits, fn.alice_bases, mb.bob_bases, mb.bob_results)
          IN \E ra \in error_checking(fn.a.alice_bits, sa.sifted_bits, sa.matching_indices,
                                       fn.eve_present),
                rb \in error_checking(fn.b.alice_bits, sb.sifted_bits, sb.matching_indices,
                                       fn.eve_present) :
               /\ ra.errors - NaturalErrors(fn.a.alice_bits, sa.sifted_bits, sa.matching_indices)
                    = rb.errors - NaturalErrors(fn.b.alice_bits, sb.sifted_bits, sb.matching_indices)
               /\ fn' = [fn EXCEPT !.stage = "twin_run",
                                   !.a = TwinSteps(fn.a, fn.alice_bases, ma, ra),
                                   !.b = TwinSteps(fn.b, fn.alice_bases, mb, rb)]
  /\ UNCHANGED <<sessionVars, gui, web>>

NextFn ==
  \/ FnSift \/ FnCheckErrors \/ FnGenerateKey \/ FnConsole \/ FnLoad \/ FnEncrypt \/ FnDecrypt
  \/ FnMeasure \/ FnWebMeasure \/ FnTransmit \/ FnConsoleTransmit
  \/ FnWebCheckErrors \/ FnGenerateKeyUnclean \/ FnMeasureUnclean \/ FnDistillPair
  \/ FnConsoleRun \/ FnTwinRun

SpecFn == InitFn /\ [][NextFn]_vars

(***************************************************************************)
(* The desktop front end (quantum-keygen-gui.py): one BB84GUI object.  A   *)
(* button is usable when its tab is enabled; the welcome and setup pages   *)
(* stay usable once enabled.  The worker thread a button starts runs to    *)
(* its end, or to the exception that ends it, in one step; only the        *)
(* preparation thread is a step of its own, so that the button can be      *)
(* pressed again while it runs.                                            *)
(***************************************************************************)
\* setup_complete accepts 10 <= num_qubits <= 100
GuiMinQubits == 10

GuiMaxQubits == 100

\* the sifting page lists the first 15 qubits
GuiShown == 15

\* sifting reports an error below 8 sifted bits
GuiMinSifted == 8

\* numbers typed into the "Number of qubits" entry
GuiQubitInputs == (GuiMinQubits - 1)..MaxGuiQubits

\* the outcomes of n calls of random.randint(0, 1) for bases, within the
\* bound: as RandomBits, or 1 every time
GuiRandomBits(n) == RandomBits(n) \cup {[i \in 1..n |-> 1]}

\* s with its k-th element removed
RemoveAt(s, k) == SubSeq(s, 1, k - 1) \o SubSeq(s, k + 1, Len(s))

Range(s) == {s[k] : k \in 1..Len(s)}

\* the eavesdropper loop of start_transmission over range(num_qubits): the
\* possible alice_bits afterwards, and whether the loop ended by an
\* IndexError (it may when alice_bits is shorter than num_qubits)
gui_transmit(num_qubits, alice_bits, has_eavesdropper) ==
  LET changed == {alice_bits} \cup
                 {[alice_bits EXCEPT ![k] = 1 - alice_bits[k]] :
                    k \in 1..Min2(Min2(Len(alice_bits), num_qubits), MaxRandomPos)}
  IN IF ~has_eavesdropper
     THEN {[alice_bits |-> alice_bits, error |-> ""]}
     ELSE {[alice_bits |-> b, error |-> ""] : b \in changed} \cup
          (IF Len(alice_bits) < num_qubits
           THEN {[alice_bits |-> b, error |-> "IndexError"] : b \in changed}
           ELSE {})

\* the loop of start_bob_measurement over range(num_qubits): the possible
\* (bob_bases, bob_results).  bob_bases is appended to before alice_bases[i]
\* is read, so the IndexError at i = len(alice_bases) leaves bob_bases one
\* longer than bob_results.
gui_measure(num_qubits, alice_bases, alice_bits) ==
  LET done == Min2(num_qubits, Len(alice_bases))
      crash == num_qubits > Len(alice_bases)
      tried == IF crash THEN done + 1 ELSE done
  IN {[bob_bases |-> bb,
       bob_results |-> [i \in 1..done |-> IF bb[i] = alice_bases[i] THEN alice_bits[i] ELSE r[i]],
       error |-> IF crash THEN "IndexError" ELSE ""]
        : bb \in GuiRandomBits(tried), r \in RandomBits(done)}

\* the two loops of start_sifting.sift and the list comprehension after them
gui_sift(num_qubits, alice_bases, bob_bases, bob_results) ==
  IF num_qubits > Min2(Len(alice_bases), Len(bob_bases))
  THEN [error |-> "IndexError", sifted_bits |-> <<>>, matching_indices |-> <<>>]
  ELSE LET first == SelectSeq([i \in 1..Min2(GuiShown, num_qubits) |-> i - 1],
                              LAMBDA i : At(alice_bases, i) = At(bob_bases, i))
           rest == SelectSeq([i \in 1..num_qubits |-> i - 1],
                             LAMBDA i : At(alice_bases, i) = At(bob_bases, i) /\ i \notin Range(first))
           matching_indices == first \o rest
       IN IF \E k \in 1..Len(matching_indices) : matching_indices[k] >= Len(bob_results)
          THEN [error |-> "IndexError", sifted_bits |-> <<>>, matching_indices |-> <<>>]
          ELSE [error |-> "",
                sifted_bits |-> [k \in 1..Len(matching_indices) |->
                                   At(bob_results, matching_indices[k])],
                matching_indices |-> matching_indices]

GuiStep(g) == gui' = g /\ UNCHANGED <<sessionVars, fn, web>>

\* "Start Demo" on the welcome page
GuiStartDemo ==
  GuiStep([gui EXCEPT !.tabs = @ \cup {1}, !.last = "start_demo", !.error = ""])

\* "Complete Setup": num_qubits is assigned before it is validated
GuiSetupComplete ==
  \E n \in GuiQubitInputs, eve \in BOOLEAN :
    /\ 1 \in gui.tabs
    /\ IF ~(GuiMinQubits <= n /\ n <= GuiMaxQubits)
       THEN GuiStep([gui EXCEPT !.num_qubits = n, !.last = "setup_rejected", !.error = ""])
       ELSE GuiStep([gui EXCEPT !.num_qubits = n,
                                !.has_eavesdropper = eve,
                                !.alice_bits = <<>>,
                                !.alice_bases = <<>>,
                                !.tabs = @ \cup {2},
                                !.last = "setup_complete",
                                !.error = ""])

\* "Start Qubit Preparation": starts a preparation thread
GuiStartAlicePreparation ==
  /\ 2 \in gui.tabs
  /\ gui.prep_button = "start"
  /\ Len(gui.preparing) < MaxPrepareThreads
  /\ GuiStep([gui EXCEPT !.preparing = Append(@, gui.num_qubits),
                         !.last = "start_alice_preparation",
                         !.error = ""])

\* a preparation thread appends its bits and bases and turns the button
\* into "Continue to Transmission"
GuiPrepareThread ==
  \E t \in 1..Len(gui.preparing) :
    \E bits \in RandomBits(gui.preparing[t]), bases \in GuiRandomBits(gui.preparing[t]) :
      GuiStep([gui EXCEPT !.alice_bits = @ \o bits,
                          !.alice_bases = @ \o bases,
                          !.preparing = RemoveAt(@, t),
                          !.prep_button = "continue",
                          !.last = "prepare",
                          !.error = ""])

\* "Continue to Transmission"
GuiGoToTransmission ==
  /\ 2 \in gui.tabs
  /\ gui.prep_button = "continue"
  /\ GuiStep([gui EXCEPT !.tabs = @ \cup {3}, !.last = "go_to_transmission", !.error = ""])

\* "Send Qubits"
GuiStartTransmission ==
  /\ 3 \in gui.tabs
  /\ gui.transmit_button = "start"
  /\ \E o \in gui_transmit(gui.num_qubits, gui.alice_bits, gui.has_eavesdropper) :
       GuiStep([gui EXCEPT !.alice_bits = o.alice_bits,
                           !.transmit_button = IF o.error = "" THEN "continue" ELSE @,
                           !.last = "transmit",
                           !.error = o.error])

\* "Continue to Bob's Measurements"
GuiGoToBob ==
  /\ 3 \in gui.tabs
  /\ gui.transmit_button = "continue"
  /\ GuiStep([gui EXCEPT !.tabs = @ \cup {4}, !.last = "go_to_bob", !.error = ""])

\* "Start Measurements"
GuiStartBobMeasurement ==
  /\ 4 \in gui.tabs
  /\ gui.measure_button = "start"
  /\ \E m \in gui_measure(gui.num_qubits, gui.alice_bases, gui.alice_bits) :
       GuiStep([gui EXCEPT !.bob_bases = m.bob_bases,
                           !.bob_results = m.bob_results,
                           !.measure_button = IF m.error = "" THEN "continue" ELSE @,
                           !.last = "measure",
                           !.error = m.error])

\* "Continue to Sifting"
GuiGoToSifting ==
  /\ 4 \in gui.tabs
  /\ gui.measure_button = "continue"
  /\ GuiStep([gui EXCEPT !.tabs = @ \cup {5}, !.last = "go_to_sifting", !.error = ""])

\* "Compare Bases & Sift"
GuiStartSifting ==
  /\ 5 \in gui.tabs
  /\ gui.sifting_button = "start"
  /\ LET r == gui_sift(gui.num_qubits, gui.alice_bases, gui.bob_bases, gui.bob_results)
     IN IF r.error # ""
        THEN GuiStep([gui EXCEPT !.last = "sift", !.error = r.error])
        ELSE IF Len(r.sifted_bits) < GuiMinSifted
        THEN GuiStep([gui EXCEPT !.sifted_bits = r.sifted_bits, !.last = "sift", !.error = ""])
        ELSE GuiStep([gui EXCEPT !.sifted_bits = r.sifted_bits,
                                 !.matching_indices = r.matching_indices,
                                 !.sifting_button = "continue",
                                 !.last = "sift",
                                 !.error = ""])

NextGui ==
  \/ GuiStartDemo
  \/ GuiSetupComplete
  \/ GuiStartAlicePreparation
  \/ GuiPrepareThread
  \/ GuiGoToTransmission
  \/ GuiStartTransmission
  \/ GuiGoToBob
  \/ GuiStartBobMeasurement
  \/ GuiGoToSifting
  \/ GuiStartSifting

SpecGui == Init /\ [][NextGui]_vars

(***************************************************************************)
(* The web front end (streamlit-keygen.py): one process, the state is      *)
(* st.session_state.  One step is one script run caused by one widget: the *)
(* eavesdropper checkbox or one button.  A button whose condition is false *)
(* changes nothing and is no step.  A run that ends in an exception keeps  *)
(* the state and records the exception in error.                           *)
(***************************************************************************)
\* the number of qubits "Regenerate More Qubits" prepares: 50 in the code,
\* scaled down here as MaxQubits is (the sliders start at 10)
WebRegenQubits == 6

\* the characters (code points) of the phase names
PhaseChars(name) ==
  CASE name = "setup" -> <<115, 101, 116, 117, 112>>
    [] name = "prepared" -> <<112, 114, 101, 112, 97, 114, 101, 100>>
    [] name = "transmitted" -> <<116, 114, 97, 110, 115, 109, 105, 116, 116, 101, 100>>
    [] name = "measured" -> <<109, 101, 97, 115, 117, 114, 101, 100>>
    [] name = "sifted" -> <<115, 105, 102, 116, 101, 100>>
    [] name = "error_checked" -> <<101, 114, 114, 111, 114, 95, 99, 104, 101, 99, 107, 101, 100>>
    [] name = "complete" -> <<99, 111, 109, 112, 108, 101, 116, 101>>

\* Python's s >= t on strings: the first differing character decides, a
\* proper prefix is smaller
RECURSIVE LexGE(_, _)
LexGE(s, t) ==
  IF t = <<>> THEN TRUE
  ELSE IF s = <<>> THEN FALSE
  ELSE IF Head(s) # Head(t) THEN Head(s) > Head(t)
  ELSE LexGE(Tail(s), Tail(t))

\* st.session_state.phase >= name
PhaseGE(phase, name) == LexGE(PhaseChars(phase), PhaseChars(name))

\* reset_protocol
reset_protocol(state) ==
  [state EXCEPT !.alice_bits = <<>>, !.alice_bases = <<>>,
                !.bob_bases = <<>>, !.bob_results = <<>>,
                !.sifted_bits = <<>>, !.final_key = EmptyKey,
                !.phase = "setup", !.error_rate = ZeroRate,
                !.transmitted_bits = <<>>, !.has_transmitted = FALSE,
                !.matching_indices = <<>>, !.has_matching = FALSE]

WebStep(w) == web' = w /\ UNCHANGED <<sessionVars, fn, gui>>

\* the "Add Eavesdropper (Eve)" checkbox is toggled
WebToggleEve ==
  WebStep([web EXCEPT !.eve_present = ~@, !.error = ""])

\* "EMERGENCY RESET" and "Reset Protocol"
WebReset ==
  WebStep([reset_protocol(web) EXCEPT !.error = ""])

\* "1. Alice Prepares Qubits"
WebPrepare ==
  \E n \in {MaxQubits} :
    \E q \in generate_qubits(n) :
      WebStep([web EXCEPT !.alice_bits = q[1], !.alice_bases = q[2],
                          !.phase = "prepared", !.error = ""])

\* "2. Transmit Qubits"
WebTransmit ==
  /\ PhaseGE(web.phase, "prepared")
  /\ \E t \in simulate_transmission(web.alice_bits, web.eve_present) :
       WebStep([web EXCEPT !.transmitted_bits = t, !.has_transmitted = TRUE,
                           !.phase = "transmitted", !.error = ""])

\* "3. Bob Measures"
WebMeasure ==
  /\ PhaseGE(web.phase, "transmitted")
  /\ IF ~web.has_transmitted
     THEN WebStep([web EXCEPT !.error = "AttributeError"])
     ELSE \E m \in bob_measurement(web.alice_bases, web.transmitted_bits) :
            IF m.error # ""
            THEN WebStep([web EXCEPT !.error = m.error])
            ELSE WebStep([web EXCEPT !.bob_bases = m.bob_bases, !.bob_results = m.bob_results,
                                     !.phase = "measured", !.error = ""])

\* "4. Sift Keys"
WebSift ==
  /\ PhaseGE(web.phase, "measured")
  /\ LET r == perform_sifting(web.alice_bits, web.alice_bases, web.bob_bases, web.bob_results)
     IN WebStep([web EXCEPT !.sifted_bits = r.sifted_bits,
                            !.matching_indices = r.matching_indices,
                            !.has_matching = TRUE,
                            !.phase = "sifted", !.error = ""])

\* "5. Check Errors"
WebCheckErrors ==
  /\ PhaseGE(web.phase, "sifted")
  /\ IF ~web.has_matching
     THEN WebStep([web EXCEPT !.error = "AttributeError"])
     ELSE \E r \in web_error_checking(web.alice_bits, web.sifted_bits,
                                      web.matching_indices, web.eve_present) :
            WebStep([web EXCEPT !.error_rate = r.error_rate,
                                !.sifted_bits = r.remaining_bits,
                                !.phase = "error_checked",
                                !.error = ""])

\* "6. Generate Final Key"
WebGenerateKey ==
  /\ PhaseGE(web.phase, "error_checked")
  /\ IF Len(web.sifted_bits) < 4
     THEN WebStep([web EXCEPT !.final_key = EmptyKey, !.error = ""])
     ELSE LET final_key == web_generate_final_key(web.sifted_bits)
          IN IF final_key # EmptyKey
             THEN WebStep([web EXCEPT !.final_key = final_key, !.phase = "complete",
                                      !.error = ""])
             ELSE WebStep([web EXCEPT !.final_key = EmptyKey,
                                      !.error = ""])

\* the debug panel is rendered
WebStuck == web.phase = "error_checked" /\ web.final_key = EmptyKey

\* debug panel: "Reset Everything"
WebResetEverything ==
  /\ WebStuck
  /\ WebStep([reset_protocol(web) EXCEPT !.error = ""])

\* debug panel: "Go Back to Sifting"
WebBackToSifting ==
  /\ WebStuck
  /\ WebStep([web EXCEPT !.phase = "sifted", !.error = ""])

\* debug panel: "Regenerate More Qubits"
WebRegenerate ==
  /\ WebStuck
  /\ \E q \in generate_qubits(WebRegenQubits) :
       WebStep([reset_protocol(web) EXCEPT !.alice_bits = q[1], !.alice_bases = q[2],
                                           !.phase = "prepared",
                                           !.error = ""])

NextWeb ==
  \/ WebToggleEve
  \/ WebReset
  \/ WebPrepare
  \/ WebTransmit
  \/ WebMeasure
  \/ WebSift
  \/ WebCheckErrors
  \/ WebGenerateKey
  \/ WebResetEverything
  \/ WebBackToSifting
  \/ WebRegenerate

SpecWeb == Init /\ [][NextWeb]_vars

(***************************************************************************)
(* Properties                                                              *)
(***************************************************************************)
\* the document as a script run starting now would load it
View == load_shared_state(file_exists, file)

\* the document as a script run starting after the step would load it
ViewNext == load_shared_state(file_exists', file')

SidebarOps == {"change_partner", "toggle_eve"}

AliceSaveOps ==
  {"change_partner", "toggle_eve", "greet", "start_protocol", "prepare", "transmit",
   "start_sifting", "perform_sifting", "check_errors", "back_to_error_check", "generate_key"}

BobSaveOps == {"confirm_ready", "not_ready", "measure"}

SaveOps == AliceSaveOps \cup BobSaveOps

ResetOps == {"restart", "start_new_protocol"}

\* actor a's handler op runs in this step
Runs(a, op) == pc[a] = "loaded" /\ pc'[a] = op

\* the chain of phases of the specification, by name
ChainNext(name) ==
  CASE name = "greeting" -> "waiting_response"
    [] name = "waiting_response" -> "preparation"
    [] name = "preparation" -> "transmission"
    [] name = "transmission" -> "waiting_measurement"
    [] name = "waiting_measurement" -> "sifting"
    [] name = "sifting" -> "error_check"
    [] name = "error_check" -> "key_generation"
    [] name = "key_generation" -> "complete"
    [] OTHER -> "none"

C2_LastWriterWins ==
  [][\A a \in Actors :
       (pc[a] = "loaded" /\ pc'[a] \in SaveOps) => (file_exists' /\ file' = local'[a])]_vars

\* C2 witness: sender and receiver both loaded the document waiting for the
\* receiver's reply with the eavesdropper off; the sender saved the toggled
\* checkbox, then the receiver saved its confirmation, and the toggle is gone
C2_Witness ==
  /\ pc["alice"] = "toggle_eve"
  /\ pc["bob"] = "confirm_ready"
  /\ stale["bob"] = 1
  /\ local["alice"].phase = WaitingResponse("bob")
  /\ local["alice"].eve_present
  /\ file_exists
  /\ file = local["bob"]
  /\ ~file.eve_present
  /\ file.phase = Phase("preparation")

\* C3 (as claimed): finalKey is non-empty if and only if phase is Complete
C3_KeyIffComplete == (View.final_key # EmptyKey) <=> (View.phase = Phase("complete"))

ResetOffered(state) == NotEnoughBits(state) \/ KeyShown(state)

Cleared(state) ==
  /\ state.phase = Phase("greeting")
  /\ state.alice_bits = <<>> /\ state.alice_bases = <<>>
  /\ state.bob_bases = <<>> /\ state.bob_results = <<>>
  /\ state.huot_bases = <<>> /\ state.huot_results = <<>>
  /\ state.sifted_bits = <<>> /\ state.matching_indices = <<>>
  /\ state.error_rate = ZeroRate
  /\ state.final_key = EmptyKey

C5_ReceiverSilent ==
  [][(/\ View.phase.name \in {"greeting", "preparation", "transmission"}
      /\ pc["bob"] = "loaded"
      /\ pc'["bob"] \in BobSaveOps) => ViewNext = View]_vars

\* C6 (as claimed): the phase leaves AwaitingPeerReply for Preparing only by
\* the receiver's confirmation, and leaves AwaitingMeasurement for Sifting
\* only by the receiver's measurement of the document's current sender data.
C6_ReceiverGated ==
  [][/\ (View.phase.name = "waiting_response" /\ ViewNext.phase = Phase("preparation"))
          => Runs("bob", "confirm_ready")
     /\ (View.phase.name = "waiting_measurement" /\ ViewNext.phase = Phase("sifting"))
          => /\ Runs("bob", "measure")
             /\ local["bob"].alice_bases = View.alice_bases
             /\ local["bob"].alice_bits = View.alice_bits]_vars

\* C7 (as claimed): the receiver's "not ready" answer returns the phase to
\* Greeting, its "ready" answer makes the phase Preparing.
C7_NotReadyToGreeting ==
  [][/\ Runs("bob", "not_ready") => ViewNext.phase = Phase("greeting")
     /\ Runs("bob", "confirm_ready") => ViewNext.phase = Phase("preparation")]_vars

\* C7 (amended): the receiver's "not ready" answer leaves the phase at
\* AwaitingPeerReply with the receiver's readiness flag false, its "ready"
\* answer makes the phase Preparing with the flag true.
C7_NotReadyStays ==
  [][/\ Runs("bob", "not_ready") =>
          (ViewNext.phase = WaitingResponse("bob") /\ ~ViewNext.bob_ready)
     /\ Runs("bob", "confirm_ready") =>
          (ViewNext.phase = Phase("preparation") /\ ViewNext.bob_ready)]_vars

\* C7 witness: the receiver answered "not ready"
C7_Witness ==
  /\ pc["bob"] = "not_ready"
  /\ file_exists
  /\ file = local["bob"]
  /\ file.phase = WaitingResponse("bob")
  /\ ~file.bob_ready

FnMinLength ==
  Min2(Min2(Len(fn.in.alice_bits), Len(fn.in.alice_bases)),
       Min2(Len(fn.in.partner_bases), Len(fn.in.partner_results)))

\* C9 (perform_sifting alone): matching_indices is exactly the increasing list of the indices below
\* the common minimum length at which the two bases agree, and sifted_bits
\* holds the receiver's result at each of them.
C9_SiftExact ==
  fn.stage \in {"sifted", "checked"} =>
    LET idx == fn.matching_indices
        sb == fn.sifted_bits
    IN /\ Len(sb) = Len(idx)
       /\ \A k \in 1..Len(idx) :
            /\ idx[k] \in 0..(FnMinLength - 1)
            /\ At(fn.in.alice_bases, idx[k]) = At(fn.in.partner_bases, idx[k])
            /\ sb[k] = At(fn.in.partner_results, idx[k])
       /\ \A k \in 1..(Len(idx) - 1) : idx[k] < idx[k + 1]
       /\ \A i \in 0..(FnMinLength - 1) :
            At(fn.in.alice_bases, i) = At(fn.in.partner_bases, i)
              => \E k \in 1..Len(idx) : idx[k] = i

\* C9 (perform_sifting alone) witness: inputs of different lengths, some bases agree and some do not
C9_Witness ==
  /\ fn.stage = "sifted"
  /\ Len(fn.in.partner_results) < Len(fn.in.alice_bases)
  /\ Len(fn.matching_indices) >= 1
  /\ Len(fn.matching_indices) < FnMinLength
  /\ fn.in.partner_results # SubSeq(fn.in.alice_bits, 1, Len(fn.in.partner_results))

\* the strictly increasing list of all i < L at which the two bases agree
MatchingBelow(L, senderBases, receiverBases) ==
  SelectSeq([i \in 1..L |-> i - 1], LAMBDA i : At(senderBases, i) = At(receiverBases, i))

\* C9 (as claimed, on the desktop front end): pressing "Compare Bases & Sift"
\* never fails, stores as sifted bits the receiver's results at exactly the
\* indices below the common minimum length at which the bases agree, and
\* stores those indices whenever it accepts the result.
C9_GuiSiftExact ==
  [][(gui'.last = "sift" /\ gui' # gui) =>
        LET L == Min2(Len(gui.alice_bases), Min2(Len(gui.bob_bases), Len(gui.bob_results)))
            M == MatchingBelow(L, gui.alice_bases, gui.bob_bases)
        IN /\ gui'.error = ""
           /\ gui'.sifted_bits = [k \in 1..Len(M) |-> At(gui.bob_results, M[k])]
           /\ Len(M) >= GuiMinSifted => gui'.matching_indices = M]_vars

\* C9 witness: the sift thread of the desktop front end died on an IndexError
C9_GuiSiftFailed == gui.last = "sift" /\ gui.error = "IndexError"

\* C10: on the reference scenario sifting yields indices 0,2,3,4,5,6 and bits
\* 1,1,1,0,0,1, and error checking without eavesdropper finds no error.
C10_ReferenceScenario ==
  fn.stage \in {"sifted", "checked"} /\ fn.in = Scenario =>
    /\ fn.matching_indices = <<0, 2, 3, 4, 5, 6>>
    /\ fn.sifted_bits = <<1, 1, 1, 0, 0, 1>>
    /\ (fn.stage = "checked" /\ ~fn.eve) =>
         (fn.errors = 0 /\ fn.error_rate.num = 0 /\ fn.error_rate.den = 6)

\* C10 witness: the reference scenario was sifted and error-checked
C10_Witness == fn.stage = "checked" /\ fn.in = Scenario /\ ~fn.eve

\* C11 (as claimed, error_checking alone): the returned error count never
\* exceeds the number of sifted bits given.
C11_FnRateInUnitInterval ==
  fn.stage = "checked" => (0 <= fn.errors /\ fn.errors <= Len(fn.sifted_bits))

\* C12: for a non-empty sifted list of length T and error count e the
\* remaining bits are the list without its last s = min(e + 1, max(1, T div 8))
\* elements when s < T and the whole list when s >= T, hence a non-empty
\* prefix; for the empty list the result is (0, 0, empty).
C12_SacrificePolicy ==
  fn.stage = "checked" =>
    LET T == Len(fn.sifted_bits)
        e == fn.errors
        s == Min2(e + 1, Max2(1, T \div 8))
    IN IF T = 0
       THEN fn.error_rate = ZeroRate /\ e = 0 /\ fn.remaining_bits = <<>>
       ELSE /\ s < T => fn.remaining_bits = SubSeq(fn.sifted_bits, 1, T - s)
            /\ s >= T => fn.remaining_bits = fn.sifted_bits
            /\ Len(fn.remaining_bits) <= T
            /\ fn.remaining_bits # <<>>
            /\ fn.remaining_bits = SubSeq(fn.sifted_bits, 1, Len(fn.remaining_bits))

\* C12 witness: two of sixteen sifted bits were sacrificed
C12_Witness ==
  /\ fn.stage = "checked"
  /\ Len(fn.sifted_bits) = LongLen
  /\ fn.errors >= 1
  /\ Len(fn.remaining_bits) = LongLen - 2

\* C12 witness of the guard: a single sifted bit was kept
C12_WitnessGuard ==
  /\ fn.stage = "checked"
  /\ Len(fn.sifted_bits) = 1
  /\ fn.remaining_bits = fn.sifted_bits

\* C13: in the two-actor application a key is made only by a "Generate Key"
\* step of the sender, whose loaded sifted_bits have at least 4 elements, and
\* it is the key made from exactly these bits; no "Generate Key" step runs on
\* fewer than 4 bits.  Any other step that makes the stored final_key a new
\* non-empty value stores again the key the writing actor had loaded.
C13_KeyOnlyFromFourBits ==
  [][/\ (ViewNext.final_key # View.final_key /\ ViewNext.final_key # EmptyKey) =>
          \E a \in Actors :
             /\ pc[a] = "loaded" /\ pc'[a] # "loaded"
             /\ IF a = "alice" /\ pc'[a] = "generate_key"
                THEN /\ ViewNext.final_key = generate_final_key(local[a].sifted_bits)
                     /\ ViewNext.sifted_bits = local[a].sifted_bits
                ELSE ViewNext.final_key = local[a].final_key
     /\ Runs("alice", "generate_key") =>
          (/\ Len(local["alice"].sifted_bits) >= 4
           /\ local'["alice"].final_key = generate_final_key(local["alice"].sifted_bits)
           /\ ViewNext.final_key # EmptyKey)
     /\ \A a \in Actors :
          (local'[a].final_key # local[a].final_key /\ local'[a].final_key # EmptyKey) =>
             \/ Runs("alice", "generate_key") /\ a = "alice"
             \/ pc'[a] = "loaded" /\ local'[a].final_key = View.final_key]_vars

\* C13 (witness): a key made from exactly 4 sifted bits is stored
C13_Witness ==
  /\ pc["alice"] = "generate_key"
  /\ Len(View.sifted_bits) = 4
  /\ View.final_key = generate_final_key(View.sifted_bits)
  /\ View.final_key # EmptyKey

\* C13 (functions and console program): each generate_final_key returns a key
\* exactly when it is given at least 4 bits, and the console program calls
\* _privacy_amplification with at least 4 bits only.
C13_FnKeyOnlyFromFourBits ==
  /\ fn.stage = "distilled" =>
       (/\ (fn.final_key # EmptyKey) <=> (Len(fn.remaining_bits) >= 4)
        /\ (fn.web_key # EmptyKey) <=> (Len(fn.remaining_bits) >= 4))
  /\ fn.stage = "console" =>
       (/\ (fn.console.key # EmptyKey) <=> (fn.console.outcome = "key")
        /\ (fn.console.outcome = "key") =>
             (/\ Len(fn.console.bits) >= 4
              /\ fn.console.key = privacy_amplification(fn.console.bits)))

C13_FnWitnessShort ==
  fn.stage = "distilled" /\ Len(fn.remaining_bits) = 2 /\ fn.final_key = EmptyKey

C13_FnWitnessConsole ==
  fn.stage = "console" /\ fn.console.outcome = "key" /\ Len(fn.console.bits) < Len(fn.sifted_bits)

\* C13 (web front end): final_key becomes a new non-empty value only as the
\* key made from the current sifted_bits, which have at least 4 elements.
C13_WebKeyOnlyFromFourBits ==
  [][(web'.final_key # web.final_key /\ web'.final_key # EmptyKey) =>
       /\ Len(web.sifted_bits) >= 4
       /\ web'.final_key = web_generate_final_key(web.sifted_bits)
       /\ web'.sifted_bits = web.sifted_bits]_vars

C13_WebWitness ==
  web.final_key # EmptyKey /\ web.final_key = web_generate_final_key(web.sifted_bits)

\* C14: in the desktop front end, when the last running preparation thread
\* finishes, alice_bits and alice_bases hold exactly the number of qubits
\* that thread was started for.
C14_GuiPreparedLength ==
  [][(gui.preparing # <<>> /\ gui'.preparing = <<>>) =>
       (/\ Len(gui'.alice_bits) = gui.preparing[1]
        /\ Len(gui'.alice_bases) = gui.preparing[1])]_vars

\* C14 (failing state): two presses of "Start Preparation" left twice
\* num_qubits elements in both lists
C14_GuiDoubleLength ==
  /\ gui.preparing = <<>>
  /\ gui.prep_button = "continue"
  /\ Len(gui.alice_bits) = 2 * gui.num_qubits
  /\ Len(gui.alice_bases) = 2 * gui.num_qubits

\* the list-valued, flag-valued keys of the session document
SequenceKeys ==
  {"alice_bits", "alice_bases", "bob_bases", "bob_results", "huot_bases",
   "huot_results", "sifted_bits", "matching_indices"}

ReadyKeys == {"alice_ready", "bob_ready", "huot_ready"}

\* C15: load_shared_state never raises; on a missing or unparsable file it
\* returns a default document (phase greeting, every list empty, final_key
\* empty, every ready flag false, eve_present false), and otherwise the
\* document in the file.
C15_ReadNeverFails ==
  fn.stage = "read" =>
    /\ ~fn.raised
    /\ (fn.exists /\ fn.parses) => fn.state = fn.content
    /\ ~(fn.exists /\ fn.parses) =>
         (/\ fn.state.phase = Phase("greeting")
          /\ \A k \in SequenceKeys \cap DOMAIN fn.state : fn.state[k] = <<>>
          /\ \A k \in ReadyKeys \cap DOMAIN fn.state : fn.state[k] = FALSE
          /\ fn.state.final_key = EmptyKey
          /\ fn.state.eve_present = FALSE
          /\ fn.state.alice_message = "" /\ fn.state.bob_message = ""
          /\ fn.state.error_rate = ZeroRate)

\* C15 (witness): a file that exists, cannot be parsed and held a key was read
C15_Witness ==
  /\ fn.stage = "read" /\ fn.exists /\ ~fn.parses
  /\ fn.content.final_key # EmptyKey
  /\ fn.state.final_key = EmptyKey

\* C16: a handler that saves from a copy whose phase is no longer the stored
\* document's phase leaves the stored document unchanged.
C16_StaleWriteRejected ==
  [][\A a \in Actors :
       (pc[a] = "loaded" /\ pc'[a] \in SaveOps /\ local[a].phase # View.phase) =>
          ViewNext = View]_vars

\* a handler of the receiver's page can run
BobStep == BobConfirmReady \/ BobNotReady \/ BobMeasure

\* C17: whenever the receiver's page shows one of the phases sifting,
\* error_check and key_generation, a handler of the receiver can run.
C17_ReceiverCanAdvance ==
  (Loaded("bob") /\ local["bob"].phase.name \in {"sifting", "error_check", "key_generation"})
    => ENABLED BobStep

\* C17 (failing state): both pages show phase sifting, the stored document
\* is in phase sifting, and only the sender has a handler to run
C17_ReceiverIdleInSifting ==
  /\ Loaded("bob") /\ Loaded("alice")
  /\ View.phase = Phase("sifting")
  /\ local["bob"].phase = Phase("sifting") /\ local["alice"].phase = Phase("sifting")
  /\ ~ENABLED BobStep
  /\ ENABLED AlicePerformSifting

\* C18 (as claimed): a non-empty message encrypts under every key with at
\* least as many bits (4 per hex digit) as the message, to the XOR of its
\* bits with the key's first bits, and decrypts under that key to itself; a
\* key with fewer bits is refused as too short.
C18_RoundTrip ==
  LET message_bits == bits_of(utf8_encode(fn.message))
  IN /\ (fn.stage \in {"encrypted", "decrypted"} /\ fn.message # <<>>) =>
          IF 4 * Len(fn.key) >= Len(message_bits)
          THEN /\ fn.enc.success
               /\ bits_of(fromhex(fn.enc.encrypted_hex).bytes)
                    = [j \in 1..Len(message_bits) |->
                         (message_bits[j] + ((fn.key[(j - 1) \div 4 + 1]
                             \div (2 ^ (3 - ((j - 1) % 4)))) % 2)) % 2]
          ELSE ~fn.enc.success /\ fn.enc.error = "key_too_short"
                 /\ fn.enc.encrypted_hex = <<>>
     /\ (fn.stage = "decrypted" /\ fn.dec_key = fn.key) =>
          (fn.dec.success /\ fn.dec.decrypted_message = fn.message)
     /\ (fn.stage = "decrypted" /\ 4 * Len(fn.dec_key) < 4 * Len(fn.enc.encrypted_hex)) =>
          (~fn.dec.success /\ fn.dec.error = "key_too_short"
             /\ fn.dec.decrypted_message = <<>>)

\* C18 (failing state): a one-byte message and a key of three hex digits,
\* refused although the key has 12 bits for a message of 8
C18_OddKeyRefused ==
  /\ fn.stage = "encrypted"
  /\ Len(utf8_encode(fn.message)) = 1
  /\ Len(fn.key) = 3
  /\ ~fn.enc.success
  /\ fn.enc.error = "exception"

\* C18 (keys of whole bytes): the claimed behaviour holds for every key
\* with an even number of hex digits, empty keys aside.
C18_RoundTripWholeBytes ==
  (fn.stage \in {"encrypted", "decrypted"} /\ Len(fn.key) % 2 = 0
     /\ Len(fn.dec_key) % 2 = 0 /\ fn.dec_key # <<>>)
    => C18_RoundTrip

C18_WholeBytesWitness ==
  /\ fn.stage = "decrypted" /\ fn.dec_key = fn.key
  /\ fn.message = <<233>> /\ Len(fn.key) = 4
  /\ fn.dec.decrypted_message = fn.message
  /\ fn.enc.encrypted_hex # tohex(utf8_encode(fn.message))

\* the position of a phase of the web front end in the order of the steps
WebRank(phase) ==
  CASE phase = "setup" -> 0
    [] phase = "prepared" -> 1
    [] phase = "transmitted" -> 2
    [] phase = "measured" -> 3
    [] phase = "sifted" -> 4
    [] phase = "error_checked" -> 5
    [] phase = "complete" -> 6

\* C19: in the web front end a step that changes the phase moves it at most
\* one position forward: the phase becomes transmitted only from prepared
\* or later, measured only from transmitted or later, sifted only from
\* measured or later, error_checked only from sifted or later, and complete
\* only from error_checked.
C19_WebStepsInOrder ==
  [][web'.phase # web.phase => WebRank(web'.phase) <= WebRank(web.phase) + 1]_vars

\* C19 (failing state): "Transmit Qubits" took effect although no qubits
\* were ever prepared
C19_TransmittedUnprepared ==
  web.phase = "transmitted" /\ web.has_transmitted /\ web.alice_bits = <<>>

\* C19 (failing state): a key was generated although the sifted bits were
\* never error-checked
C19_KeyFromUncheckedBits ==
  /\ web.phase = "complete"
  /\ web.final_key # EmptyKey
  /\ Len(web.sifted_bits) = Len(web.matching_indices)
  /\ web.sifted_bits # <<>>

\* C20: a "Check Errors" step on a document whose sifted_bits an earlier
\* error check has already shortened (they are fewer than the matching
\* indices the sifting produced with them) leaves sifted_bits as they were
\* and error_rate at the same value.
C20_SecondCheckHarmless ==
  [][(/\ Runs("alice", "check_errors")
      /\ Len(local["alice"].sifted_bits) < Len(local["alice"].matching_indices)) =>
       (/\ ViewNext.sifted_bits = local["alice"].sifted_bits
        /\ ViewNext.error_rate.num * local["alice"].error_rate.den
             = local["alice"].error_rate.num * ViewNext.error_rate.den)]_vars

\* C20 (failing state): two error checks in a row have each removed a bit
C20_ShortenedTwice ==
  /\ pc["alice"] = "check_errors"
  /\ View.phase = Phase("key_generation")
  /\ View.sifted_bits # <<>>
  /\ Len(View.sifted_bits) + 2 = Len(View.matching_indices)

\* the receiver's page offers a button for this document
BobHasAction(state) ==
  \/ state.phase = WaitingResponse("bob") /\ state.alice_message # ""
  \/ state.phase = WaitingMeasurement("bob")

\* actor a's page shows a phase other than the stored one
ShowsOldPhase(a) == pc[a] # "idle" /\ local[a].phase # View.phase

\* C21: whenever the receiver's page shows a document that gives it no
\* button and whose phase is no longer the stored one, the page eventually
\* shows the stored phase; the same for the sender's page in its two
\* waiting phases.
C21_WaitingActorsObserve ==
  /\ (ShowsOldPhase("bob") /\ ~BobHasAction(local["bob"])) ~> ~ShowsOldPhase("bob")
  /\ (ShowsOldPhase("alice")
        /\ local["alice"].phase \in {WaitingResponse(SelectedPartner),
                                      WaitingMeasurement(SelectedPartner)})
       ~> ~ShowsOldPhase("alice")

\* C21 (failing state): the receiver's page shows the completed session and
\* will not rerun, while the sender has started a new protocol
C21_ReceiverMissesRestart ==
  /\ pc["bob"] = "loaded"
  /\ local["bob"].phase = Phase("complete")
  /\ pc["alice"] = "start_new_protocol"
  /\ ~file_exists
  /\ View.phase = Phase("greeting")
  /\ ~ENABLED AutoRefresh("bob")
  /\ ~ENABLED Rerun("bob")

\* C21 (failing state): the receiver's page shows a greeting phase with an
\* empty greeting, offers no button and will not rerun, while the sender
\* has changed the partner and the stored phase is greeting again
C21_ReceiverMissesEmptyGreeting ==
  /\ pc["bob"] = "loaded"
  /\ local["bob"].phase = WaitingResponse("bob")
  /\ local["bob"].alice_message = ""
  /\ View.phase = Phase("greeting")
  /\ ~ENABLED AutoRefresh("bob")
  /\ ~ENABLED Rerun("bob")

\* C21 (sender): the sender's page in a waiting phase eventually shows the
\* stored phase.
C21_SenderObserves ==
  (ShowsOldPhase("alice")
     /\ local["alice"].phase \in {WaitingResponse(SelectedPartner),
                                   WaitingMeasurement(SelectedPartner)})
    ~> ~ShowsOldPhase("alice")

\* C21 (receiver, refreshed phases): in the phases the receiver's page
\* refreshes itself it eventually shows the stored phase.
C21_ReceiverObservesRefreshed ==
  (ShowsOldPhase("bob") /\ local["bob"].phase \in RefreshPhases("bob", local["bob"]))
    ~> ~ShowsOldPhase("bob")

\* the session is over: complete, or key_generation with fewer than 4 bits
SessionDone == View.phase = Phase("complete") \/ NotEnoughBits(View)

\* C22: once a greeting is stored, whatever the partner name and the
\* greeting text, the session eventually is complete or in key_generation
\* with fewer than 4 sifted bits.
C22_Progress ==
  (file_exists /\ View.phase.name = "waiting_response") ~> SessionDone

\* C22 (failing state): an empty greeting to bob is stored, both pages show
\* it, and neither page offers a protocol button
C22_StuckOnEmptyGreeting ==
  /\ View.phase = WaitingResponse("bob") /\ View.alice_message = ""
  /\ \A a \in Actors : pc[a] = "loaded" /\ local[a] = View
  /\ ~ENABLED AliceProtocolStep
  /\ ~ENABLED BobProtocolStep

\* C22 (failing state): a greeting to huot is stored, both pages show it,
\* and neither page offers a protocol button
C22_StuckOnOtherPartner ==
  /\ View.phase = WaitingResponse("huot") /\ View.alice_message # ""
  /\ \A a \in Actors : pc[a] = "loaded" /\ local[a] = View
  /\ ~ENABLED AliceProtocolStep
  /\ ~ENABLED BobProtocolStep

\* C22 (partner bob, non-empty greeting): the session eventually is done.
C22_ProgressBobGreeted ==
  (file_exists /\ View.phase = WaitingResponse("bob") /\ View.alice_message # "")
    ~> SessionDone

\* C23: while the state file is removed, the write that creates it again
\* stores no data of an earlier session: the lists and the key are empty and
\* the phase is greeting or the waiting phase of a new greeting.
C23_ResetInvalidates ==
  [][(~file_exists /\ file_exists') =>
       (/\ \A k \in SequenceKeys : ViewNext[k] = <<>>
        /\ ViewNext.final_key = EmptyKey
        /\ ViewNext.phase.name \in {"greeting", "waiting_response"})]_vars

\* C23 (failing state): after "Start New Protocol" the receiver's handler,
\* run on a page loaded before, has stored the old bits and key again
C23_OldSessionBroughtBack ==
  /\ pc["alice"] = "start_new_protocol"
  /\ pc["bob"] \in BobSaveOps
  /\ file_exists
  /\ View.final_key # EmptyKey
  /\ View.alice_bits # <<>>

\* C24: a partner change stores phase greeting, every ready flag false, and
\* empty bits, bases, results, sifted bits and matching indices, a zero
\* error rate and no key.
C24_PartnerChangeResets ==
  [][Runs("alice", "change_partner") =>
       (/\ ViewNext.phase = Phase("greeting")
        /\ \A k \in ReadyKeys : ViewNext[k] = FALSE
        /\ \A k \in SequenceKeys : ViewNext[k] = <<>>
        /\ ViewNext.error_rate = ZeroRate
        /\ ViewNext.final_key = EmptyKey)]_vars

\* C24 (failing state): after a partner change the document is in phase
\* greeting and still holds the previous session's bits, results and key
C24_OldSessionKept ==
  /\ pc["alice"] = "change_partner"
  /\ View.phase = Phase("greeting")
  /\ View.alice_bits # <<>>
  /\ View.bob_results # <<>>
  /\ View.final_key # EmptyKey

\* C25: in the desktop front end, once the preparation has finished,
\* alice_bits and alice_bases never change until "Complete Setup" clears
\* them for a new session.
C25_GuiWrittenOnce ==
  [][(/\ gui.prep_button = "continue" /\ gui.preparing = <<>>
      /\ gui'.last # "setup_complete") =>
       (gui'.alice_bits = gui.alice_bits /\ gui'.alice_bases = gui.alice_bases)]_vars

\* C25 (failing state): the transmission with the eavesdropper has run its
\* loop over alice_bits
C25_GuiEveTransmitted ==
  /\ gui.last = "transmit" /\ gui.error = ""
  /\ gui.has_eavesdropper
  /\ gui.alice_bits # <<>>

\* C25 (web front end): prepared alice_bits and alice_bases change only by
\* a reset.
C25_WebWrittenOnce ==
  [][(web.alice_bits # <<>> /\ web'.alice_bits # <<>>) =>
       (web'.alice_bits = web.alice_bits /\ web'.alice_bases = web.alice_bases)]_vars

\* C25 (two-actor application): stored alice_bits and alice_bases change
\* only by the removal of the file.
C25_AppWrittenOnce ==
  [][(View.alice_bits # <<>> /\ file_exists') =>
       (ViewNext.alice_bits = View.alice_bits /\ ViewNext.alice_bases = View.alice_bases)]_vars

\* C26: while the document exists and its session has left the greeting
\* phase, no write changes the stored eve_present.
C26_EveFixed ==
  [][(/\ file_exists /\ file_exists'
      /\ View.phase # Phase("greeting")
      /\ ViewNext.phase # Phase("greeting")) =>
       ViewNext.eve_present = View.eve_present]_vars

\* C26 (failing state): the checkbox was switched on after Bob measured
\* without the eavesdropper and before the errors are checked
C26_ToggledAfterMeasurement ==
  /\ pc["alice"] = "toggle_eve"
  /\ file_exists
  /\ View.phase = Phase("sifting")
  /\ View.bob_results # <<>>
  /\ View.eve_present

\* C26 (web front end): once qubits are transmitted, eve_present changes
\* only together with a reset.
C26_WebEveFixed ==
  [][(web.has_transmitted /\ web'.has_transmitted) =>
       web'.eve_present = web.eve_present]_vars

\* two error rates are the same number
SameRate(r, q) == r.num * q.den = q.num * r.den

\* C27: once an error check has stored a rate, no write to the existing
\* document changes the value of error_rate.
C27_RateWrittenOnce ==
  [][(file_exists /\ file_exists' /\ View.error_rate # ZeroRate) =>
       SameRate(ViewNext.error_rate, View.error_rate)]_vars

\* C27 (failing state): "Check Errors" has run a second time after
\* "Back to Error Check" and stored a rate over fewer bits
C27_CheckedAgain ==
  /\ pc["alice"] = "check_errors"
  /\ file_exists
  /\ View.error_rate.num > 0
  /\ View.error_rate.den < Len(View.matching_indices)
  /\ View.phase = Phase("key_generation")

\* C27 (web front end): once an error check has stored a rate, error_rate
\* keeps its value until reset_protocol clears the session.
C27_WebRateWrittenOnce ==
  [][(web.error_rate # ZeroRate /\ web'.has_matching) =>
       SameRate(web'.error_rate, web.error_rate)]_vars

\* C28: in the web front end sifted_bits is never longer than
\* matching_indices, and between a sifting and the next reset the length of
\* sifted_bits never increases.
C28_WebSiftedOnlyShrinks ==
  /\ [](Len(web.sifted_bits) <= Len(web.matching_indices))
  /\ [][(web.has_matching /\ web'.has_matching) =>
          Len(web'.sifted_bits) <= Len(web.sifted_bits)]_vars

\* C28 (failing state): after an error check over two or more bits, which
\* always removes a bit, "Sift Keys" has restored the full list
C28_WebSiftedRestored ==
  /\ web.phase = "sifted"
  /\ web.has_matching
  /\ web.error_rate.den >= 2
  /\ Len(web.sifted_bits) = web.error_rate.den
  /\ Len(web.sifted_bits) = Len(web.matching_indices)

\* C28 (two-actor application, first half): the stored sifted_bits is never
\* longer than the stored matching_indices.
C28_SiftedWithinMatching ==
  /\ Len(View.sifted_bits) <= Len(View.matching_indices)
  /\ Len(web.sifted_bits) <= Len(web.matching_indices)

\* C28 (two-actor application, second half): while the document exists the
\* length of the stored sifted_bits never increases once it is not empty.
C28_AppSiftedOnlyShrinks ==
  [][(file_exists /\ file_exists' /\ View.matching_indices # <<>>) =>
       Len(ViewNext.sifted_bits) <= Len(View.sifted_bits)]_vars

\* C29: a measurement that returns gives bob_bases and bob_results of equal
\* length, at most the number of qubits when both inputs have that length;
\* where Bob's basis equals alice_bases[i] the result is the transmitted bit
\* at i, and without the eavesdropper the transmitted bits are the input bits.
C29_MeasureFaithful ==
  (fn.stage = "measured" /\ fn.out.error = "") =>
    /\ Len(fn.out.bob_bases) = Len(fn.out.bob_results)
    /\ (Len(fn.alice_bases) = Len(fn.bits) => Len(fn.out.bob_results) <= Len(fn.bits))
    /\ \A i \in 1..Len(fn.out.bob_bases) :
         (i <= Len(fn.alice_bases) /\ fn.out.bob_bases[i] = fn.alice_bases[i]) =>
           (i <= Len(fn.out.transmitted_bits) /\ fn.out.bob_results[i] = fn.out.transmitted_bits[i])
    /\ (~fn.eve_present => fn.out.transmitted_bits = fn.bits)

\* C29 (witness): bob-app.py's measurement returned a result read from a bit
\* the eavesdropper has changed
C29_Witness ==
  /\ fn.stage = "measured" /\ fn.app = "bob" /\ fn.out.error = ""
  /\ fn.eve_present
  /\ Len(fn.bits) = MaxLen /\ Len(fn.alice_bases) = MaxLen
  /\ fn.out.bob_bases[1] = fn.alice_bases[1]
  /\ fn.out.transmitted_bits[1] # fn.bits[1]
  /\ fn.out.bob_results[1] = fn.out.transmitted_bits[1]

\* C29 (witness, web front end): bob_measurement returned with an agreeing
\* and a differing basis
C29_WebWitness ==
  /\ fn.stage = "measured" /\ fn.app = "web" /\ fn.out.error = ""
  /\ Len(fn.bits) = MaxLen /\ Len(fn.alice_bases) = MaxLen
  /\ fn.out.bob_bases[1] = fn.alice_bases[1]
  /\ fn.out.bob_bases[2] # fn.alice_bases[2]
  /\ fn.out.bob_results[1] = fn.out.transmitted_bits[1]

\* C30: a measurement on lists of different lengths returns, and measures
\* the first min(len(alice_bases), len(bits)) positions.
C30_MeasureUsesShorter ==
  (fn.stage = "measured" /\ Len(fn.alice_bases) # Len(fn.bits)) =>
    /\ fn.out.error = ""
    /\ Len(fn.out.bob_results) = Min2(Len(fn.alice_bases), Len(fn.bits))

\* C30 (failing state): simulate_measurement read past the end of the bits
C30_MeasureIndexError ==
  /\ fn.stage = "measured" /\ fn.app = "bob"
  /\ Len(fn.bits) < Len(fn.alice_bases)
  /\ fn.out.error = "IndexError"

\* C30 (failing state): simulate_measurement returned more results than
\* there are bits
C30_MeasureTooLong ==
  /\ fn.stage = "measured" /\ fn.app = "bob" /\ fn.out.error = ""
  /\ Len(fn.bits) < Len(fn.alice_bases)
  /\ Len(fn.out.bob_results) = Len(fn.alice_bases)

\* C30 (failing state): bob_measurement read past the end of alice_bases
C30_WebMeasureIndexError ==
  /\ fn.stage = "measured" /\ fn.app = "web"
  /\ Len(fn.alice_bases) < Len(fn.bits)
  /\ fn.out.error = "IndexError"

\* C30 (web front end): bob_measurement returns with len(transmitted_bits)
\* results whenever alice_bases is not the shorter list.
C30_WebMeasureLongerBases ==
  (fn.stage = "measured" /\ fn.app = "web" /\ Len(fn.alice_bases) >= Len(fn.bits)) =>
    (fn.out.error = "" /\ Len(fn.out.bob_results) = Len(fn.bits))

\* C31: a transmission leaves the sender's bases as they were and keeps the
\* number of bits; without the eavesdropper the bits are unchanged too.
C31_TransmissionKeepsBases ==
  fn.stage = "transmitted" =>
    /\ fn.bases_after = fn.alice_bases
    /\ Len(fn.bits_after) = Len(fn.alice_bits)
    /\ (~fn.eve_present => fn.bits_after = fn.alice_bits)

\* C31 (failing state): after the console program's interception alice_bases
\* holds Eve's basis at a position
C31_ConsoleBasesReplaced ==
  /\ fn.stage = "transmitted" /\ fn.app = "console"
  /\ fn.eve_present
  /\ fn.bases_after # fn.alice_bases

\* C31 (web front end): simulate_transmission satisfies the statement.
C31_WebTransmissionKeepsBases ==
  (fn.stage = "transmitted" /\ fn.app = "web") =>
    /\ fn.bases_after = fn.alice_bases
    /\ Len(fn.bits_after) = Len(fn.alice_bits)
    /\ (~fn.eve_present => fn.bits_after = fn.alice_bits)

\* C31 (desktop front end): "Send Qubits" leaves alice_bases unchanged, and
\* alice_bits too when there is no eavesdropper.
C31_GuiTransmissionKeepsBases ==
  [][gui'.last = "transmit" =>
       /\ gui'.alice_bases = gui.alice_bases
       /\ (~gui.has_eavesdropper => gui'.alice_bits = gui.alice_bits)]_vars

\* C32: an error check of a non-empty sifted list of length T with the
\* eavesdropper adds between 1 and max(1, T div 15) errors to the mismatch
\* count; without the eavesdropper the count is the mismatch count.
C32_InjectedErrors ==
  (fn.stage \in {"checked", "web_checked"} /\ fn.sifted_bits # <<>>) =>
    LET natural == NaturalErrors(fn.in.alice_bits, fn.sifted_bits, fn.matching_indices)
        T == Len(fn.sifted_bits)
    IN IF fn.eve
       THEN /\ fn.errors - natural \in 1..Max2(1, T \div 15)
            /\ fn.errors >= 1
       ELSE fn.errors = natural

\* C32 (failing state): the web front end's check with the eavesdropper
\* returned the mismatch count itself
C32_WebNothingInjected ==
  /\ fn.stage = "web_checked"
  /\ fn.eve
  /\ fn.sifted_bits # <<>>
  /\ fn.errors = NaturalErrors(fn.in.alice_bits, fn.sifted_bits, fn.matching_indices)

\* C32 (two-actor application): alice-app.py's error_checking satisfies the
\* statement.
C32_AppInjectedErrors ==
  (fn.stage = "checked" /\ fn.sifted_bits # <<>>) =>
    LET natural == NaturalErrors(fn.in.alice_bits, fn.sifted_bits, fn.matching_indices)
    IN IF fn.eve
       THEN fn.errors - natural \in 1..Max2(1, Len(fn.sifted_bits) \div 15)
       ELSE fn.errors = natural

\* C32 (witness of the two-actor case): a check of LongLen bits with the
\* eavesdropper and two mismatches
C32_AppWitness ==
  /\ fn.stage = "checked" /\ fn.eve
  /\ Len(fn.sifted_bits) = LongLen
  /\ fn.errors = 3

\* C33: key generation from a list that holds a value other than 0 and 1
\* returns no key, and the measurement does not read such a value as a bit.
C33_UncleanRejected ==
  /\ fn.stage = "unclean_distilled" => (fn.final_key = EmptyKey /\ fn.web_key = EmptyKey)
  /\ fn.stage = "unclean_measured" => fn.out.error # ""

\* C33 (failing state): the web front end's generate_final_key returned a
\* key for a list that holds a 2
C33_WebKeyFromUnclean ==
  /\ fn.stage = "unclean_distilled"
  /\ \E i \in 1..Len(fn.bits) : fn.bits[i] = 2
  /\ fn.web_key # EmptyKey

\* C33 (failing state): the receiver measured 0 where the sender's list
\* holds a 2
C33_MeasuredUncleanAsZero ==
  /\ fn.stage = "unclean_measured"
  /\ fn.out.error = ""
  /\ \E i \in 1..Len(fn.bits) :
       /\ fn.bits[i] = 2
       /\ fn.out.bob_bases[i] = fn.alice_bases[i]
       /\ fn.out.bob_results[i] = 0

\* C33 (two-actor application): alice-app.py's generate_final_key returns no
\* key for a list that holds a value other than 0 and 1.
C33_AppKeyRejected ==
  fn.stage = "unclean_distilled" => fn.final_key = EmptyKey

\* C34 (as stated): two different lists of four or more bits give different
\* bytes to the hash, and so different keys.
C34_UnequalInputsUnequalKeys ==
  (fn.stage = "pair_distilled" /\ fn.a # fn.b) =>
    (fn.key_a # fn.key_b /\ fn.console_a # fn.console_b)

\* C34 (amended): two different lists of four or more bits of the same
\* length give different bytes to the hash; two different lists give the
\* same bytes exactly when they are the same after the padding, that is when
\* the longer one is the shorter one followed by zeros up to the same number
\* of bytes.
C34_UnequalKeysUnlessPaddedAlike ==
  (fn.stage = "pair_distilled" /\ fn.a # fn.b) =>
    /\ fn.key_a # EmptyKey /\ fn.key_b # EmptyKey
    /\ fn.key_a.len = 64 /\ fn.key_b.len = 64
    /\ (Len(fn.a) = Len(fn.b) => (fn.key_a # fn.key_b /\ fn.console_a # fn.console_b))
    /\ (fn.key_a = fn.key_b <=> PadTo8(fn.a) = PadTo8(fn.b))
    /\ (fn.console_a = fn.console_b <=> PadTo8(fn.a) = PadTo8(fn.b))

\* C34 (witness): two lists of the same length that differ in the last bit
\* only, with different keys
C34_Witness ==
  /\ fn.stage = "pair_distilled"
  /\ Len(fn.a) = MaxKeyBits /\ Len(fn.b) = MaxKeyBits
  /\ fn.a[MaxKeyBits] # fn.b[MaxKeyBits]
  /\ \A i \in 1..(MaxKeyBits - 1) : fn.a[i] = fn.b[i]
  /\ fn.key_a # fn.key_b

\* C34 (the colliding case): a list and the same list with a 0 appended
\* have the same key
C34_SameKeyAfterPadding ==
  /\ fn.stage = "pair_distilled"
  /\ fn.b = Append(fn.a, 0)
  /\ fn.key_a = fn.key_b
  /\ fn.key_a # EmptyKey

\* C35: whenever the stored phase is complete, the stored final_key is
\* generate_final_key of the stored sifted_bits and is not empty; the same
\* holds of every copy an actor has loaded.
C35_KeyMatchesStoredBits ==
  /\ View.phase = Phase("complete") =>
       (View.final_key # EmptyKey /\ View.final_key = generate_final_key(View.sifted_bits))
  /\ \A a \in Actors :
       (pc[a] # "idle" /\ local[a].phase = Phase("complete")) =>
         (local[a].final_key # EmptyKey
          /\ local[a].final_key = generate_final_key(local[a].sifted_bits))

\* C35 (witness): the receiver has loaded the completed document after the
\* sender generated the key
C35_Witness ==
  /\ file_exists
  /\ View.phase = Phase("complete")
  /\ pc["alice"] = "generate_key"
  /\ pc["bob"] = "loaded"
  /\ local["bob"] = View
  /\ View.final_key = generate_final_key(View.sifted_bits)
  /\ Len(View.sifted_bits) >= MinKeyBits

\* the document is in the error check or the key generation with fewer bits
\* than a key needs
ShortOfBits(state) ==
  /\ state.phase \in {Phase("error_check"), Phase("key_generation")}
  /\ Len(state.sifted_bits) < MinKeyBits

\* C36: from the error check or the key generation with fewer than 4 sifted
\* bits, every write that does not start the session again (the removal of
\* the file, or a partner change, which stores phase greeting) leaves the
\* document in one of these two phases with no more sifted bits than before;
\* phase complete is not reached.
C36_ShortStaysShort ==
  [][(file_exists /\ ShortOfBits(View) /\ file_exists'
      /\ ViewNext.phase # Phase("greeting")) =>
       (/\ ShortOfBits(ViewNext)
        /\ Len(ViewNext.sifted_bits) <= Len(View.sifted_bits))]_vars

\* C36 (failing state): after the sender's error check the receiver's
\* "Start Measurements", pressed on a page loaded before the sifting, has
\* stored phase sifting again
C36_StaleMeasureReopensSifting ==
  /\ pc["alice"] = "check_errors"
  /\ pc["bob"] = "measure"
  /\ file_exists
  /\ View.phase = Phase("sifting")
  /\ View.bob_results # <<>>

\* C36 (the sender's steps alone): the statement holds of every write of the
\* sender.
C36_ShortStaysShortBySender ==
  [][(file_exists /\ ShortOfBits(View) /\ file_exists'
      /\ pc'["bob"] = pc["bob"]
      /\ ViewNext.phase # Phase("greeting")) =>
       (/\ ShortOfBits(ViewNext)
        /\ Len(ViewNext.sifted_bits) <= Len(View.sifted_bits))]_vars

\* C36 (the oscillation): back in the key generation with fewer than 4 bits
\* after "Back to Error Check" and a second "Check Errors"
C36_Oscillation ==
  /\ pc["alice"] = "check_errors"
  /\ file_exists
  /\ View.phase = Phase("key_generation")
  /\ Len(View.sifted_bits) < MinKeyBits
  /\ View.error_rate.den < Len(View.matching_indices)
  /\ View.error_rate.den > 0

\* C37: one error check of a sifted list of length T leaves four or more
\* bits, and the key generation from what it leaves returns a key, exactly
\* when T >= 5, whatever the number of errors and the eavesdropper setting.
C37_FourBitsLeftIffFive ==
  fn.stage = "checked" =>
    /\ (Len(fn.remaining_bits) >= MinKeyBits <=> Len(fn.sifted_bits) >= MinKeyBits + 1)
    /\ (generate_final_key(fn.remaining_bits) # EmptyKey <=> Len(fn.sifted_bits) >= MinKeyBits + 1)

\* C37 (witness): a check of five bits with a mismatch and the eavesdropper
\* leaves four
C37_Witness ==
  /\ fn.stage = "checked"
  /\ Len(fn.sifted_bits) = MinKeyBits + 1
  /\ fn.eve /\ fn.errors = 2
  /\ Len(fn.remaining_bits) = MinKeyBits

\* C37 (witness): a check of four bits without errors leaves three
C37_WitnessFour ==
  /\ fn.stage = "checked"
  /\ Len(fn.sifted_bits) = MinKeyBits
  /\ ~fn.eve /\ fn.errors = 0
  /\ Len(fn.remaining_bits) = MinKeyBits - 1

\* C38: without the eavesdropper, when "Check Errors" runs every sifted bit
\* is the sender's bit at its matching index, and the rate stored is 0.
C38_NoErrorsWithoutEve ==
  [][Runs("alice", "check_errors") =>
       (/\ NaturalErrors(local["alice"].alice_bits, local["alice"].sifted_bits,
                         local["alice"].matching_indices) = 0
        /\ ViewNext.error_rate.num = 0)]_vars

\* C38 (failing state): an error check without the eavesdropper has stored
\* a rate above 0
C38_ErrorsWithoutEve ==
  /\ pc["alice"] = "check_errors"
  /\ file_exists
  /\ ~View.eve_present
  /\ View.phase = Phase("key_generation")
  /\ View.error_rate.num > 0

\* C38 (sessions without a partner change): the statement holds as long as
\* the partner was never changed.
C38_NoErrorsFirstSession ==
  [][(Runs("alice", "check_errors") /\ edits = 0) =>
       (/\ NaturalErrors(local["alice"].alice_bits, local["alice"].sifted_bits,
                         local["alice"].matching_indices) = 0
        /\ ViewNext.error_rate.num = 0)]_vars

\* C39: in a run of the console program every sifted bit is the bit the
\* error check compares it with, alice_bits[matching_indices[idx]], so no
\* sample finds a mismatch, and the range the injected errors are drawn from
\* is not empty.
C39_ConsoleNoNaturalMismatch ==
  fn.stage = "console_run" =>
    /\ Len(fn.sifted_bits) = Len(fn.matching_indices)
    /\ \A idx \in 0..(Len(fn.sifted_bits) - 1) :
         At(fn.bits_after, At(fn.matching_indices, idx)) = At(fn.sifted_bits, idx)
    /\ fn.console.outcome # "value_error"
    /\ (~fn.eve_present => fn.console.outcome \in {"key", "too_few"})

\* C39 (witness): a run with the eavesdropper whose interception replaced a
\* basis, with ten or more sifted bits, ended by the error rate
C39_Witness ==
  /\ fn.stage = "console_run"
  /\ fn.eve_present
  /\ fn.bases_after # fn.alice_bases
  /\ Len(fn.sifted_bits) >= 10
  /\ fn.console.outcome = "rate_too_high"

\* C39 (witness): a run with the eavesdropper that returned a key
C39_WitnessKey ==
  /\ fn.stage = "console_run"
  /\ fn.eve_present
  /\ Len(fn.sifted_bits) >= 10
  /\ fn.console.outcome = "key"

\* C39 (witness): a run with exactly ten sifted bits, of which five are
\* compared, with the eavesdropper
C39_WitnessTen ==
  /\ fn.stage = "console_run"
  /\ fn.eve_present
  /\ Len(fn.sifted_bits) = 10
  /\ fn.console.outcome = "rate_too_high"
  /\ Len(fn.console.bits) = 5

\* the two sessions differ in the sender's bits only where Bob's basis is
\* not the sender's
DifferOnlyOffBasis ==
  \A i \in 1..TwinLen :
    fn.a.alice_bits[i] # fn.b.alice_bits[i] => fn.alice_bases[i] # fn.a.out.bob_bases[i]

\* C40: two sessions with the same bases and the same random choices whose
\* sender's bits differ only where the bases differ have the same sifted
\* bits, error count, remaining bits and key.
C40_KeyIndependentOffBasis ==
  (fn.stage = "twin_run" /\ DifferOnlyOffBasis) =>
    /\ fn.a.sifted_bits = fn.b.sifted_bits
    /\ fn.a.matching_indices = fn.b.matching_indices
    /\ fn.a.errors = fn.b.errors
    /\ fn.a.remaining_bits = fn.b.remaining_bits
    /\ fn.a.final_key = fn.b.final_key

\* C40 (witness): two sessions that differ in the sender's first bit, where
\* the bases differ and Eve has put her value, and end with the same key
C40_Witness ==
  /\ fn.stage = "twin_run"
  /\ DifferOnlyOffBasis
  /\ fn.eve_present
  /\ fn.a.alice_bits[1] # fn.b.alice_bits[1]
  /\ fn.a.out.transmitted_bits[1] # fn.a.alice_bits[1]
  /\ fn.a.final_key # EmptyKey
  /\ fn.a.final_key = fn.b.final_key

\* C40 (the other case): two sessions that differ in a bit where the bases
\* agree have different sifted bits
C40_DifferOnBasis ==
  /\ fn.stage = "twin_run"
  /\ ~DifferOnlyOffBasis
  /\ ~fn.eve_present
  /\ fn.a.sifted_bits # fn.b.sifted_bits

====
